---------------------------- MODULE Spec2Model ----------------------------
(***************************************************************************)
(* Session/game coordination of the chess backend: ChessGame (one game),   *)
(* ChessManager (the store `games` and the pool `waitingPlayers`) and the  *)
(* STOMP MessageController (join / leave / move handlers, the transport    *)
(* disconnect listener and its delayed removal thread).                    *)
(*                                                                         *)
(* A ChessGame is a Java object: handlers keep a reference to it after     *)
(* their synchronized block and read its live fields when they build the   *)
(* outgoing ChessMessage.  The heap `obj` therefore holds every game ever  *)
(* constructed, keyed by its gameId, and `games` is the set of ids the     *)
(* manager's map currently holds.                                          *)
(***************************************************************************)
EXTENDS Integers, Sequences, FiniteSets, TLC

\* ------------------------------------------------------------------ bounds

\* Number of games that can be constructed in one run (gameIds 1..MaxGames).
MaxGames == 2

\* Longest moveHistory explored; a move request on a longer history is not issued.
MaxMoves == 2

\* Number of games constructed in one run of the controller with managerLock,
\* whose handlers take several steps each.
MaxLockedGames == 1

\* ------------------------------------------------------------------ inputs

Null == "null"

Players == {"alice", "bob", "carol"}

\* The names clients join under when moves are played too; the third name
\* then only sends leave and move requests.
TwoPlayers == {"alice", "bob"}

\* Payload values of the `player` / `sender` field: a name, or a missing one.
PlayerInputs == Players \cup {Null}

\* STOMP sessions (connections) that are open at the same time.
Conns == {"s1", "s2"}

\* Handler threads of the message broker's executor.
Threads == {"t1", "t2"}

GameIds == 1 .. MaxGames

\* gameId payload values: an id that was issued, or one that never was (0).
NoGame == 0

E2E4 == <<"e", "2", "e", "4">>

\* A token of length 3.
ShortMove == <<"e", "2", "e">>

\* The `move` payloads clients send.
LongMove == <<"e", "7", "e", "8", "q">>
Moves == {E2E4, ShortMove, LongMove}

\* Tokens of length 4 for the board: two pawn moves, a move across the
\* board, a move onto its own square, a move from an empty square, and
\* tokens whose squares lie outside a1-h8.
E7E5 == <<"e", "7", "e", "5">>

A1H8 == <<"a", "1", "h", "8">>

E2E2 == <<"e", "2", "e", "2">>

E4E5 == <<"e", "4", "e", "5">>

I2E4 == <<"i", "2", "e", "4">>

E9E4 == <<"e", "9", "e", "4">>

E2E0 == <<"e", "2", "e", "0">>

DigitsFirst == <<"2", "e", "4", "e">>

BoardMoves == {E2E4, E7E5, A1H8, E2E2, E4E5, I2E4, E9E4, E2E0, DigitsFirst, ShortMove}

\* The `move` field of a payload that has none.
NoMove == <<Null>>

\* ------------------------------------------------------------- GameState

WAITING_FOR_PLAYER == "WAITING_FOR_PLAYER"

PLAYER1_TURN == "PLAYER1_TURN"

PLAYER2_TURN == "PLAYER2_TURN"

PLAYER1_WON == "PLAYER1_WON"

PLAYER2_WON == "PLAYER2_WON"

TIE == "TIE"

\* --------------------------------------------------------------- ChessGame

\* new ChessGame(player1, player2): empty history, White (player1) to move,
\* waiting when there is no second player.
NewChessGame(player1, player2) ==
    [ player1     |-> player1,
      player2     |-> player2,
      moveHistory |-> << >>,
      winner      |-> Null,
      turn        |-> player1,
      gameState   |-> IF player2 = Null THEN WAITING_FOR_PLAYER ELSE PLAYER1_TURN ]

\* move.charAt(i) - 'a' for the characters the model's tokens are made of.
CharMinusA(ch) ==
    CASE ch = "a" -> 0  [] ch = "b" -> 1  [] ch = "c" -> 2  [] ch = "d" -> 3
      [] ch = "e" -> 4  [] ch = "f" -> 5  [] ch = "g" -> 6  [] ch = "h" -> 7
      [] ch = "i" -> 8
      [] ch = "0" -> 0 - 49 [] ch = "1" -> 0 - 48 [] ch = "2" -> 0 - 47
      [] ch = "3" -> 0 - 46 [] ch = "4" -> 0 - 45 [] ch = "5" -> 0 - 44
      [] ch = "6" -> 0 - 43 [] ch = "7" -> 0 - 42 [] ch = "8" -> 0 - 41
      [] ch = "9" -> 0 - 40

\* Character.getNumericValue: a digit's value, and 10.. for the letters a, b, ...
GetNumericValue(ch) ==
    CASE ch = "0" -> 0 [] ch = "1" -> 1 [] ch = "2" -> 2 [] ch = "3" -> 3
      [] ch = "4" -> 4 [] ch = "5" -> 5 [] ch = "6" -> 6 [] ch = "7" -> 7
      [] ch = "8" -> 8 [] ch = "9" -> 9
      [] ch = "a" -> 10 [] ch = "b" -> 11 [] ch = "c" -> 12 [] ch = "d" -> 13
      [] ch = "e" -> 14 [] ch = "f" -> 15 [] ch = "g" -> 16 [] ch = "h" -> 17
      [] ch = "i" -> 18

BlackBackRank == <<"r", "n", "b", "q", "k", "b", "n", "r">>

WhiteBackRank == <<"R", "N", "B", "Q", "K", "B", "N", "R">>

\* The starting board with White at the top.
InitialBoardFlipped ==
    [ row \in 0 .. 7 |->
        [ col \in 0 .. 7 |->
            CASE row = 0 -> WhiteBackRank[col + 1]
              [] row = 1 -> "P"
              [] row = 6 -> "p"
              [] row = 7 -> BlackBackRank[col + 1]
              [] OTHER   -> " " ] ]

\* The board getBoard() starts from: board[row][col], row 0 at the top.
InitialBoard ==
    [ row \in 0 .. 7 |->
        [ col \in 0 .. 7 |->
            CASE row = 0 -> BlackBackRank[col + 1]
              [] row = 1 -> "p"
              [] row = 6 -> "P"
              [] row = 7 -> WhiteBackRank[col + 1]
              [] OTHER   -> " " ] ]

\* applyMove that copies the piece and leaves the from-square as it was.
ApplyMoveCopies(board, move) ==
    IF Len(move) # 4
    THEN board
    ELSE LET fromCol == CharMinusA(move[1])
             toCol   == CharMinusA(move[3])
             fromRow == 8 - GetNumericValue(move[2])
             toRow   == 8 - GetNumericValue(move[4])
         IN  IF \/ fromCol < 0 \/ fromCol > 7 \/ fromRow < 0 \/ fromRow > 7
                \/ toCol < 0 \/ toCol > 7 \/ toRow < 0 \/ toRow > 7
             THEN board
             ELSE [board EXCEPT ![toRow][toCol] = board[fromRow][fromCol]]

\* ChessGame.applyMove(board, move): relocate the content of the from-square.
ApplyMove(board, move) ==
    IF Len(move) # 4
    THEN board
    ELSE LET fromCol == CharMinusA(move[1])
             toCol   == CharMinusA(move[3])
             fromRow == 8 - GetNumericValue(move[2])
             toRow   == 8 - GetNumericValue(move[4])
         IN  IF \/ fromCol < 0 \/ fromCol > 7 \/ fromRow < 0 \/ fromRow > 7
                \/ toCol < 0 \/ toCol > 7 \/ toRow < 0 \/ toRow > 7
             THEN board
             ELSE LET piece   == board[fromRow][fromCol]
                      cleared == [board EXCEPT ![fromRow][fromCol] = " "]
                  IN  [cleared EXCEPT ![toRow][toCol] = piece]

RECURSIVE ReplayMoves(_, _)
\* The loop of getBoard(): apply the moves of the history in order.
ReplayMoves(board, history) ==
    IF history = << >>
    THEN board
    ELSE ReplayMoves(ApplyMove(board, Head(history)), Tail(history))

\* ChessGame.getBoard()
GetBoard(game) == ReplayMoves(InitialBoard, game.moveHistory)

\* getBoard() that consumes the history it has replayed.
AfterGetBoardClearsHistory(game) == [game EXCEPT !.moveHistory = << >>]

\* The object after getBoard(): the method builds the board in a local
\* array and assigns no field.
AfterGetBoard(game) == game

\* ChessGame.isGameOver()
IsGameOver(game) == game.gameState \in {PLAYER1_WON, PLAYER2_WON, TIE}

\* makeMove without the change of turn.
MakeMoveKeepsTurn(game, player, move) ==
    IF player # game.turn \/ Len(move) # 4
    THEN [ok |-> FALSE, game |-> game]
    ELSE [ok |-> TRUE, game |-> [game EXCEPT !.moveHistory = Append(@, move)]]

\* makeMove without the check of the token's length.
MakeMoveAnyLength(game, player, move) ==
    IF player # game.turn
    THEN [ok |-> FALSE, game |-> game]
    ELSE [ok   |-> TRUE,
          game |-> IF player = game.player1
                   THEN [game EXCEPT !.moveHistory = Append(@, move),
                                     !.turn = game.player2,
                                     !.gameState = PLAYER2_TURN]
                   ELSE [game EXCEPT !.moveHistory = Append(@, move),
                                     !.turn = game.player1,
                                     !.gameState = PLAYER1_TURN]]

\* makeMove that keeps only the last token.
MakeMoveOverwritesHistory(game, player, move) ==
    IF player # game.turn \/ Len(move) # 4
    THEN [ok |-> FALSE, game |-> game]
    ELSE [ok   |-> TRUE,
          game |-> IF player = game.player1
                   THEN [game EXCEPT !.moveHistory = <<move>>,
                                     !.turn = game.player2,
                                     !.gameState = PLAYER2_TURN]
                   ELSE [game EXCEPT !.moveHistory = <<move>>,
                                     !.turn = game.player1,
                                     !.gameState = PLAYER1_TURN]]

\* makeMove that records the token before it checks the token's length.
MakeMoveAppendsFirst(game, player, move) ==
    IF player # game.turn
    THEN [ok |-> FALSE, game |-> game]
    ELSE IF Len(move) # 4
    THEN [ok |-> FALSE, game |-> [game EXCEPT !.moveHistory = Append(@, move)]]
    ELSE [ok   |-> TRUE,
          game |-> IF player = game.player1
                   THEN [game EXCEPT !.moveHistory = Append(@, move),
                                     !.turn = game.player2,
                                     !.gameState = PLAYER2_TURN]
                   ELSE [game EXCEPT !.moveHistory = Append(@, move),
                                     !.turn = game.player1,
                                     !.gameState = PLAYER1_TURN]]

\* ChessGame.makeMove(player, move): [ok, game], the returned flag and the
\* object after the call.
MakeMove(game, player, move) ==
    IF player # game.turn
    THEN [ok |-> FALSE, game |-> game]
    ELSE IF Len(move) # 4
    THEN [ok |-> FALSE, game |-> game]
    ELSE [ok   |-> TRUE,
          game |-> IF player = game.player1
                   THEN [game EXCEPT !.moveHistory = Append(@, move),
                                     !.turn = game.player2,
                                     !.gameState = PLAYER2_TURN]
                   ELSE [game EXCEPT !.moveHistory = Append(@, move),
                                     !.turn = game.player1,
                                     !.gameState = PLAYER1_TURN]]

\* setWinner that records nothing.
SetWinnerForgets(game, player) == game

\* ChessGame.setWinner(player): the object after the call.
SetWinner(game, player) ==
    IF player = game.player1
    THEN [game EXCEPT !.gameState = PLAYER1_WON, !.winner = player]
    ELSE IF player = game.player2
    THEN [game EXCEPT !.gameState = PLAYER2_WON, !.winner = player]
    ELSE game

\* ------------------------------------------------------------------ state

VARIABLES
    obj,             \* heap: gameId -> ChessGame object, every game constructed
    games,           \* ChessManager.games: the ids the store holds
    waitingPlayers,  \* ChessManager.waitingPlayers: player -> gameId (NoGame: no entry)
    nextId,          \* the next fresh gameId (UUID.randomUUID())
    attrs,           \* session attributes of each connection: gameId and player
    thr,             \* each handler thread: where it is, and its locals
    timers,          \* gameIds whose delayed-removal thread is sleeping
    lastSent,        \* the broker: the last message handed over on each game topic,
                     \* recorded where a handler's build and send are separate steps
    clients          \* ChessGame.jsx of each player name: its subscriptions and what
                     \* it learned, recorded where messages are delivered to clients

vars == <<obj, games, waitingPlayers, nextId, attrs, thr, timers, lastSent, clients>>

\* The manager's maps and the heap they point into, as one value.
Manager == [obj |-> obj, games |-> games, waitingPlayers |-> waitingPlayers,
            nextId |-> nextId]

NoAttrs == [gameId |-> NoGame, player |-> Null]

\* The broker before any message: nothing was sent on any game topic.  A
\* topic's entry is empty or holds the one message sent last.
NothingSent == [g \in GameIds |-> << >>]

\* ChessGame.jsx before its connection is up: no subscription, no game id
\* and no colour (useState(null)).
NoClients ==
    [p \in Players |->
        [lobby |-> FALSE, topics |-> {}, gameId |-> NoGame, playerColor |-> Null,
         opponent |-> Null]]

\* A thread's locals once its synchronized block is left: where it is, and
\* the game it holds a reference to.
Idle == [pc |-> "idle", gameId |-> NoGame]

Init ==
    /\ obj = << >>
    /\ games = {}
    /\ waitingPlayers = [p \in Players |-> NoGame]
    /\ nextId = 1
    /\ attrs = [c \in Conns |-> NoAttrs]
    /\ thr = [t \in Threads |-> Idle]
    /\ timers = {}
    /\ lastSent = NothingSent
    /\ clients = NoClients

\* ------------------------------------------------------------ ChessManager

\* The test with the comparison of player2 left out.
IsPlayer1OfGame(player, game) ==
    game.player1 # Null /\ game.player1 = player

\* Whether `player` is player1 or player2 of `game`
\* (MessageController.isPlayerInGame, and the filter of getGameByPlayer).
IsPlayerInGame(player, game) ==
    \/ (game.player1 # Null /\ game.player1 = player)
    \/ (game.player2 # Null /\ game.player2 = player)

\* ChessManager.getGame(gameId): the id of the stored game, or NoGame.
GetGame(m, gameId) ==
    IF gameId # NoGame /\ gameId \in m.games THEN gameId ELSE NoGame

\* ChessManager.getGameByPlayer(player): the possible [ret, m]; ret is the game
\* found (NoGame: null).  An entry of the pool whose game is gone is dropped.
\* The search of games.values() returns the first match in the map's order.
GetGameByPlayer(m, player) ==
    IF player = Null
    THEN {[ret |-> NoGame, m |-> m]}
    ELSE LET gameId == m.waitingPlayers[player]
         IN  IF gameId # NoGame /\ gameId \in m.games
             THEN {[ret |-> gameId, m |-> m]}
             ELSE LET m1 == [m EXCEPT !.waitingPlayers[player] = NoGame]
                      found == {g \in m1.games : IsPlayerInGame(player, m1.obj[g])}
                  IN  IF found = {}
                      THEN {[ret |-> NoGame, m |-> m1]}
                      ELSE {[ret |-> g, m |-> m1] : g \in found}

\* removeGame that removes the pool entries and leaves the game in the map.
RemoveGameKeepsGame(m, gameId) ==
    IF gameId = NoGame \/ gameId \notin m.games
    THEN m
    ELSE LET game == m.obj[gameId]
         IN  [m EXCEPT !.waitingPlayers =
                           [p \in Players |->
                               IF p = game.player1 \/ p = game.player2
                               THEN NoGame ELSE @[p]]]

\* removeGame that clears the whole pool.
RemoveGameClearsPool(m, gameId) ==
    IF gameId = NoGame \/ gameId \notin m.games
    THEN m
    ELSE [m EXCEPT !.games = @ \ {gameId},
                   !.waitingPlayers = [p \in Players |-> NoGame]]

\* ChessManager.removeGame(gameId): the manager after the call.
RemoveGame(m, gameId) ==
    IF gameId = NoGame \/ gameId \notin m.games
    THEN m
    ELSE LET game == m.obj[gameId]
         IN  [m EXCEPT !.games = @ \ {gameId},
                       !.waitingPlayers =
                           [p \in Players |->
                               IF p = game.player1 \/ p = game.player2
                               THEN NoGame ELSE @[p]]]

\* The loop that finds no entry.
PairingCandidatesNone(m, player) == {}

\* The waiting entries joinGame's loop can pair `player` with: another name
\* whose game is stored and has no player2.
PairingCandidates(m, player) ==
    {w \in Players :
        /\ w # player
        /\ m.waitingPlayers[w] # NoGame
        /\ m.waitingPlayers[w] \in m.games
        /\ m.obj[m.waitingPlayers[w]].player2 = Null}

\* joinGame's pairing branch: seat `player` as player2 of the game `waitingPlayer` waits in.
PairPlayers(m, waitingPlayer, player) ==
    LET gameId == m.waitingPlayers[waitingPlayer]
    IN  [ret |-> gameId,
         m   |-> [m EXCEPT !.obj[gameId] =
                               [@ EXCEPT !.player2 = player,
                                         !.gameState = PLAYER1_TURN,
                                         !.turn = m.obj[gameId].player1],
                           !.waitingPlayers =
                               [@ EXCEPT ![waitingPlayer] = NoGame,
                                         ![player] = NoGame]]]

\* The last branch without the put into waitingPlayers.
CreateGameNotWaiting(m, player) ==
    [ret |-> m.nextId,
     m   |-> [obj            |-> m.obj @@ (m.nextId :> NewChessGame(player, Null)),
              games          |-> m.games \cup {m.nextId},
              waitingPlayers |-> m.waitingPlayers,
              nextId         |-> m.nextId + 1]]

\* joinGame's last branch: a new game with `player` waiting in it.
CreateWaitingGame(m, player) ==
    [ret |-> m.nextId,
     m   |-> [obj            |-> m.obj @@ (m.nextId :> NewChessGame(player, Null)),
              games          |-> m.games \cup {m.nextId},
              waitingPlayers |-> [m.waitingPlayers EXCEPT ![player] = m.nextId],
              nextId         |-> m.nextId + 1]]

\* ChessManager.joinGame(player) for a non-empty name: the possible [ret, m].
\* The loop over waitingPlayers.entrySet() takes the first entry it can pair
\* with, in the ConcurrentHashMap's iteration order.
JoinGame(m, player) ==
    UNION { IF e.ret # NoGame
            THEN {e}
            ELSE LET m1 == [e.m EXCEPT !.waitingPlayers[player] = NoGame]
                     candidates == PairingCandidates(m1, player)
                 IN  IF candidates # {}
                     THEN {PairPlayers(m1, w, player) : w \in candidates}
                     ELSE {CreateWaitingGame(m1, player)}
          : e \in GetGameByPlayer(m, player) }

\* ChessManager.leaveGame(player) for a non-empty name: the possible [ret, m];
\* ret is the game returned for the broadcast (NoGame: null).
LeaveGame(m, player) ==
    UNION { IF e.ret = NoGame
            THEN {e}
            ELSE LET gameId == e.ret
                     game == e.m.obj[gameId]
                     m1 == [e.m EXCEPT !.waitingPlayers[player] = NoGame]
                     won(state, winner) ==
                         [m1 EXCEPT !.obj[gameId] =
                             SetWinner([game EXCEPT !.gameState = state], winner)]
                 IN  IF player = game.player1
                     THEN IF game.player2 # Null
                          THEN {[ret |-> gameId,
                                 m |-> RemoveGame(won(PLAYER2_WON, game.player2), gameId)]}
                          ELSE {[ret |-> NoGame, m |-> RemoveGame(m1, gameId)]}
                     ELSE IF player = game.player2
                     THEN IF game.player1 # Null
                          THEN {[ret |-> gameId,
                                 m |-> RemoveGame(won(PLAYER1_WON, game.player1), gameId)]}
                          ELSE {[ret |-> NoGame, m |-> RemoveGame(m1, gameId)]}
                     ELSE {[ret |-> gameId, m |-> RemoveGame(m1, gameId)]}
          : e \in GetGameByPlayer(m, player) }

\* ChessManager.isPlayerInAnyGame(player), called by the controller's join.
IsPlayerInAnyGame(m, player) ==
    \E g \in m.games : IsPlayerInGame(player, m.obj[g])

\* ------------------------------------------------------- MessageController

\* "/topic/chess" is topic NoGame; "/topic/chess.<gameId>" is topic gameId.
Lobby == NoGame

\* new ChessMessage(): every field null.  (The free-text content is kept for
\* error messages only; the board is empty until gameToMessage sets it.)
EmptyMessage ==
    [ type |-> Null, gameId |-> NoGame, player1 |-> Null, player2 |-> Null,
      board |-> << >>, turn |-> Null, gameState |-> Null, winner |-> Null,
      content |-> Null ]

\* What convertAndSend(topic, message) hands to the broker.
Send(topic, message) == [topic |-> topic, message |-> message]

\* No message.
NoSend == Send(Lobby, EmptyMessage)

\* MessageController.gameToMessage(game): the object's fields as they are now.
GameToMessage(gameId, game) ==
    [ EmptyMessage EXCEPT
        !.gameId    = gameId,
        !.player1   = game.player1,
        !.player2   = game.player2,
        !.board     = GetBoard(game),
        !.turn      = game.turn,
        !.gameState = game.gameState,
        !.winner    = game.winner ]

\* MessageController.sendErrorMessage(content, gameId)
ErrorMessage(content, gameId) ==
    Send(IF gameId # NoGame THEN gameId ELSE Lobby,
         [EmptyMessage EXCEPT !.type = "error", !.content = content])

\* The heap after garbage collection: an object that neither the store nor a
\* thread's local refers to is unreachable, and its fields are cleared.
Collected ==
    [ player1 |-> Null, player2 |-> Null, moveHistory |-> << >>, winner |-> Null,
      turn |-> Null, gameState |-> "collected" ]

Sweep(heap, stored, threads) ==
    [ g \in DOMAIN heap |->
        IF g \in stored \/ (\E t \in Threads : threads[t].gameId = g)
        THEN heap[g]
        ELSE Collected ]

\* The step's result: the manager becomes `m` and the threads `threads`.
Commit(m, threads) ==
    /\ obj' = Sweep(m.obj, m.games, threads)
    /\ games' = m.games
    /\ waitingPlayers' = m.waitingPlayers
    /\ nextId' = m.nextId
    /\ thr' = threads
    /\ UNCHANGED <<lastSent, clients>>

\* The executor hands a request to an idle thread; which one is immaterial,
\* so it is the first idle one.
Serves(t) ==
    /\ thr[t].pc = "idle"
    /\ \/ t = "t1"
       \/ thr["t1"].pc # "idle"

\* A rejected request: its error message is sent inside the handler's
\* synchronized block and the handler returns; nothing changes.
Reject(error) ==
    /\ error # NoSend
    /\ UNCHANGED vars

\* The error joinGame answers a chess.join of `player` with, or NoSend.
JoinError(m, player) ==
    IF player = Null
    THEN ErrorMessage("Invalid player data.", NoGame)
    ELSE IF IsPlayerInAnyGame(m, player)
    THEN ErrorMessage("You are already in a game.", NoGame)
    ELSE NoSend

\* What joinGame sends from inside its synchronized block: the error for a
\* player who is already in a game.
JoinErrorUnderLock(m, player) ==
    IF player = Null THEN NoSend ELSE JoinError(m, player)

\* joinGame, up to the end of its synchronized block: thread t serves a
\* chess.join of `player` that arrived on connection c.
JoinRequest(t, c, player) ==
    /\ Serves(t)
    /\ IF JoinError(Manager, player) # NoSend
       THEN Reject(JoinError(Manager, player))
       ELSE \E r \in JoinGame(Manager, player) :
               /\ r.m.nextId <= MaxGames + 1
               /\ Commit(r.m, [thr EXCEPT ![t] = [pc |-> "joined", gameId |-> r.ret]])
               /\ attrs' = [attrs EXCEPT ![c] = [gameId |-> r.ret, player |-> player]]
               /\ UNCHANGED timers

\* The game.joined message thread t sends if it sends it now.
JoinedMessage(t) ==
    Send(thr[t].gameId,
         [GameToMessage(thr[t].gameId, obj[thr[t].gameId]) EXCEPT !.type = "game.joined"])

\* joinGame: the game.joined broadcast on the game's topic.
JoinBroadcast(t) ==
    /\ thr[t].pc = "joined"
    /\ JoinedMessage(t) # NoSend
    /\ Commit(Manager, [thr EXCEPT ![t].pc = "subscribe"])
    /\ UNCHANGED <<attrs, timers>>

\* The game.subscribe notice thread t sends if it reaches the test now:
\* only while the game waits for a player.
SubscribeMessage(t) ==
    IF obj[thr[t].gameId].gameState = WAITING_FOR_PLAYER
    THEN Send(Lobby, [EmptyMessage EXCEPT
                         !.type = "game.subscribe",
                         !.gameId = thr[t].gameId,
                         !.content = "Please subscribe to game-specific topic"])
    ELSE NoSend

\* joinGame: the game.subscribe notice on the lobby topic, and the return.
JoinSubscribe(t) ==
    /\ thr[t].pc = "subscribe"
    /\ Commit(Manager, [thr EXCEPT ![t] = Idle])
    /\ UNCHANGED <<attrs, timers>>

\* The error leaveGame answers a chess.leave of `player` with, or NoSend.
LeaveError(player) ==
    IF player = Null
    THEN ErrorMessage("Invalid player data.", NoGame)
    ELSE NoSend

\* leaveGame, up to the end of its synchronized block.
LeaveRequest(t, player) ==
    /\ Serves(t)
    /\ IF LeaveError(player) # NoSend
       THEN Reject(LeaveError(player))
       ELSE \E r \in LeaveGame(Manager, player) :
               /\ Commit(r.m, [thr EXCEPT ![t] =
                            IF r.ret # NoGame
                            THEN [pc |-> "left", gameId |-> r.ret]
                            ELSE Idle])
               /\ UNCHANGED <<attrs, timers>>

\* The game.left message thread t sends if it sends it now.
LeftMessage(t) ==
    Send(thr[t].gameId,
         [GameToMessage(thr[t].gameId, obj[thr[t].gameId]) EXCEPT !.type = "game.left"])

\* leaveGame: the game.left broadcast of the returned game.
LeaveBroadcast(t) ==
    /\ thr[t].pc = "left"
    /\ LeftMessage(t) # NoSend
    /\ Commit(Manager, [thr EXCEPT ![t] = Idle])
    /\ UNCHANGED <<attrs, timers>>

\* makeMove's answers with the token's length checked before the turn.
MoveErrorLengthFirst(m, gameId, player, move) ==
    IF player = Null \/ gameId = NoGame \/ move = NoMove
    THEN ErrorMessage("Invalid move data.", NoGame)
    ELSE LET id == GetGame(m, gameId)
         IN  IF id = NoGame \/ IsGameOver(m.obj[id])
             THEN ErrorMessage("Game not found or is already over.", gameId)
             ELSE IF m.obj[id].gameState = WAITING_FOR_PLAYER
             THEN ErrorMessage("Game is waiting for another player to join.", gameId)
             ELSE IF ~IsPlayerInGame(player, m.obj[id])
             THEN ErrorMessage("You are not a participant in this game.", gameId)
             ELSE IF Len(move) # 4
             THEN ErrorMessage("Invalid move. Please try again.", gameId)
             ELSE IF m.obj[id].turn # player
             THEN ErrorMessage("It's not your turn.", gameId)
             ELSE NoSend

\* The error makeMove answers a chess.move with, or NoSend when it accepts
\* it.  A move is a token or NoMove (the field is missing).
MoveError(m, gameId, player, move) ==
    IF player = Null \/ gameId = NoGame \/ move = NoMove
    THEN ErrorMessage("Invalid move data.", NoGame)
    ELSE LET id == GetGame(m, gameId)
         IN  IF id = NoGame \/ IsGameOver(m.obj[id])
             THEN ErrorMessage("Game not found or is already over.", gameId)
             ELSE IF m.obj[id].gameState = WAITING_FOR_PLAYER
             THEN ErrorMessage("Game is waiting for another player to join.", gameId)
             ELSE IF ~IsPlayerInGame(player, m.obj[id])
             THEN ErrorMessage("You are not a participant in this game.", gameId)
             ELSE IF m.obj[id].turn # player
             THEN ErrorMessage("It's not your turn.", gameId)
             ELSE IF ~MakeMove(m.obj[id], player, move).ok
             THEN ErrorMessage("Invalid move. Please try again.", gameId)
             ELSE NoSend

\* What makeMove sends from inside its synchronized block: every error but
\* the one for a payload with a missing field, which is sent before the block.
MoveErrorUnderLock(m, gameId, player, move) ==
    IF player = Null \/ gameId = NoGame \/ move = NoMove
    THEN NoSend
    ELSE MoveError(m, gameId, player, move)

\* The manager after makeMove's synchronized block.  game.makeMove is the
\* block's only call that writes; it is reached when the four checks before
\* it have passed, and what it did to the game stays when it returns false.
MoveOutcome(m, gameId, player, move) ==
    IF MoveError(m, gameId, player, move).message.content
           \in {Null, "Invalid move. Please try again."}
    THEN [m EXCEPT !.obj[gameId] = MakeMove(@, player, move).game]
    ELSE m

\* makeMove, up to the end of its synchronized block.
MoveRequest(t, gameId, player, move) ==
    /\ Serves(t)
    /\ IF MoveError(Manager, gameId, player, move) # NoSend
       THEN /\ Commit(MoveOutcome(Manager, gameId, player, move), thr)
            /\ UNCHANGED <<attrs, timers>>
       ELSE /\ Len(obj[gameId].moveHistory) < MaxMoves
            /\ Commit(MoveOutcome(Manager, gameId, player, move),
                      [thr EXCEPT ![t] = [pc |-> "moved", gameId |-> gameId]])
            /\ UNCHANGED <<attrs, timers>>

\* The game.move message thread t sends if it sends it now.
MovedMessage(t) ==
    Send(thr[t].gameId,
         [GameToMessage(thr[t].gameId, obj[thr[t].gameId]) EXCEPT !.type = "game.move"])

\* makeMove: the game.move broadcast.
MoveBroadcast(t) ==
    /\ thr[t].pc = "moved"
    /\ MovedMessage(t) # NoSend
    /\ Commit(Manager, [thr EXCEPT ![t].pc = "moveOver"])
    /\ UNCHANGED <<attrs, timers>>

\* The game.gameOver message thread t sends if it sends it now.
GameOverMessage(t) ==
    Send(thr[t].gameId,
         [GameToMessage(thr[t].gameId, obj[thr[t].gameId]) EXCEPT !.type = "game.gameOver"])

\* makeMove: if the game is over by now, the game.gameOver broadcast and the
\* start of the delayed-removal thread; the return.
MoveGameOver(t) ==
    /\ thr[t].pc = "moveOver"
    /\ IF IsGameOver(obj[thr[t].gameId])
       THEN /\ GameOverMessage(t) # NoSend
            /\ timers' = timers \cup {thr[t].gameId}
       ELSE UNCHANGED timers
    /\ Commit(Manager, [thr EXCEPT ![t] = Idle])
    /\ UNCHANGED attrs

\* The disconnect mutation that never removes the game.
DisconnectPlayerKeepsGame(m, gameId, player) ==
    LET game == m.obj[gameId]
    IN  IF game.player1 # Null /\ game.player1 = player
        THEN [remove |-> TRUE, m |-> [m EXCEPT !.obj[gameId].player1 = Null]]
        ELSE IF game.player2 # Null /\ game.player2 = player
        THEN [remove |-> TRUE, m |-> [m EXCEPT !.obj[gameId].player2 = Null]]
        ELSE [remove |-> FALSE, m |-> m]

\* The disconnect mutation that ends the game and leaves the seat as it is.
DisconnectPlayerKeepsSeat(m, gameId, player) ==
    LET game == m.obj[gameId]
    IN  IF game.player1 # Null /\ game.player1 = player
        THEN IF game.player2 # Null
             THEN [remove |-> FALSE,
                   m |-> [m EXCEPT !.obj[gameId] =
                            SetWinner([game EXCEPT !.gameState = PLAYER2_WON],
                                      game.player2)]]
             ELSE [remove |-> TRUE, m |-> RemoveGame(m, gameId)]
        ELSE IF game.player2 # Null /\ game.player2 = player
        THEN IF game.player1 # Null
             THEN [remove |-> FALSE,
                   m |-> [m EXCEPT !.obj[gameId] =
                            SetWinner([game EXCEPT !.gameState = PLAYER1_WON],
                                      game.player1)]]
             ELSE [remove |-> TRUE, m |-> RemoveGame(m, gameId)]
        ELSE [remove |-> FALSE, m |-> m]

\* The disconnect mutation that removes the game at once, as leaveGame does.
DisconnectPlayerRemovesAtOnce(m, gameId, player) ==
    IF IsPlayerInGame(player, m.obj[gameId])
    THEN [remove |-> TRUE, m |-> RemoveGame(m, gameId)]
    ELSE [remove |-> FALSE, m |-> m]

\* The mutation handleSessionDisconnect makes in its synchronized block for
\* the stored game gameId and the name `player`: [remove, m].
DisconnectPlayer(m, gameId, player) ==
    LET game == m.obj[gameId]
    IN  IF game.player1 # Null /\ game.player1 = player
        THEN IF game.player2 # Null
             THEN [remove |-> FALSE,
                   m |-> [m EXCEPT !.obj[gameId] =
                            SetWinner([game EXCEPT !.player1 = Null,
                                                   !.gameState = PLAYER2_WON],
                                      game.player2)]]
             ELSE [remove |-> TRUE,
                   m |-> RemoveGame([m EXCEPT !.obj[gameId].player1 = Null], gameId)]
        ELSE IF game.player2 # Null /\ game.player2 = player
        THEN IF game.player1 # Null
             THEN [remove |-> FALSE,
                   m |-> [m EXCEPT !.obj[gameId] =
                            SetWinner([game EXCEPT !.player2 = Null,
                                                   !.gameState = PLAYER1_WON],
                                      game.player1)]]
             ELSE [remove |-> TRUE,
                   m |-> RemoveGame([m EXCEPT !.obj[gameId].player2 = Null], gameId)]
        ELSE [remove |-> FALSE, m |-> m]

\* The disconnect that goes on to its broadcast although the game is gone.
SessionDisconnectIgnoresMissingGame(t, c) ==
    /\ Serves(t)
    /\ attrs' = [attrs EXCEPT ![c] = NoAttrs]
    /\ UNCHANGED timers
    /\ IF attrs[c].gameId = NoGame \/ attrs[c].player = Null
       THEN UNCHANGED <<obj, games, waitingPlayers, nextId, thr, lastSent, clients>>
       ELSE IF GetGame(Manager, attrs[c].gameId) = NoGame
       THEN Commit(Manager, [thr EXCEPT ![t] =
                        [pc |-> "disconnected", gameId |-> attrs[c].gameId]])
       ELSE LET d == DisconnectPlayer(Manager, attrs[c].gameId, attrs[c].player)
            IN  Commit(d.m, [thr EXCEPT ![t] =
                             IF d.remove
                             THEN Idle
                             ELSE [pc |-> "disconnected", gameId |-> attrs[c].gameId]])

\* handleSessionDisconnect, up to the end of its synchronized block: the
\* transport reports that connection c is gone.  The connection's slot is
\* taken by a fresh connection with no attributes.
SessionDisconnect(t, c) ==
    /\ Serves(t)
    /\ attrs' = [attrs EXCEPT ![c] = NoAttrs]
    /\ UNCHANGED timers
    /\ IF attrs[c].gameId = NoGame \/ attrs[c].player = Null
       THEN UNCHANGED <<obj, games, waitingPlayers, nextId, thr, lastSent, clients>>
       ELSE IF GetGame(Manager, attrs[c].gameId) = NoGame
       THEN UNCHANGED <<obj, games, waitingPlayers, nextId, thr, lastSent, clients>>
       ELSE LET d == DisconnectPlayer(Manager, attrs[c].gameId, attrs[c].player)
            IN  Commit(d.m, [thr EXCEPT ![t] =
                             IF d.remove
                             THEN Idle
                             ELSE [pc |-> "disconnected", gameId |-> attrs[c].gameId]])

\* The broadcast that starts no delayed-removal thread.
DisconnectBroadcastNoTimer(t) ==
    /\ thr[t].pc = "disconnected"
    /\ GameOverMessage(t) # NoSend
    /\ Commit(Manager, [thr EXCEPT ![t] = Idle])
    /\ UNCHANGED <<attrs, timers>>

\* handleSessionDisconnect: the game.gameOver broadcast and the start of the
\* delayed-removal thread.
DisconnectBroadcast(t) ==
    /\ thr[t].pc = "disconnected"
    /\ GameOverMessage(t) # NoSend
    /\ timers' = timers \cup {thr[t].gameId}
    /\ Commit(Manager, [thr EXCEPT ![t] = Idle])
    /\ UNCHANGED attrs

\* The delayed-removal thread wakes up: removeGame(gameId) in its synchronized block.
DelayedRemove(gameId) ==
    /\ gameId \in timers
    /\ Commit(RemoveGame(Manager, gameId), thr)
    /\ timers' = timers \ {gameId}
    /\ UNCHANGED attrs

\* What happens after a request's synchronized block, and the removal threads.
Background ==
    \/ \E t \in Threads : JoinBroadcast(t)
    \/ \E t \in Threads : JoinSubscribe(t)
    \/ \E t \in Threads : LeaveBroadcast(t)
    \/ \E t \in Threads : DisconnectBroadcast(t)
    \/ \E gameId \in GameIds : DelayedRemove(gameId)

\* Two names join, leave, move and disconnect; any name sends leave and move.
Next ==
    \/ \E t \in Threads, c \in Conns, player \in TwoPlayers \cup {Null} :
          JoinRequest(t, c, player)
    \/ \E t \in Threads, player \in PlayerInputs : LeaveRequest(t, player)
    \/ \E t \in Threads, gameId \in GameIds \cup {NoGame}, player \in PlayerInputs,
          move \in Moves \cup {NoMove} : MoveRequest(t, gameId, player, move)
    \/ \E t \in Threads : MoveBroadcast(t)
    \/ \E t \in Threads : MoveGameOver(t)
    \/ \E t \in Threads, c \in Conns : SessionDisconnect(t, c)
    \/ Background

Spec == Init /\ [][Next]_vars

\* Three names join, leave and disconnect; no move is played.
NextLobby ==
    \/ \E t \in Threads, c \in Conns, player \in PlayerInputs :
          JoinRequest(t, c, player)
    \/ \E t \in Threads, player \in PlayerInputs : LeaveRequest(t, player)
    \/ \E t \in Threads, c \in Conns : SessionDisconnect(t, c)
    \/ Background

SpecLobby == Init /\ [][NextLobby]_vars

\* Only chess.join requests are served, by three names.
NextJoins ==
    \/ \E t \in Threads, c \in Conns, player \in PlayerInputs :
          JoinRequest(t, c, player)
    \/ \E t \in Threads : JoinBroadcast(t)
    \/ \E t \in Threads : JoinSubscribe(t)

SpecJoins == Init /\ [][NextJoins]_vars

\* ------------------------------------- MessageController with managerLock
\* The controller that guards the manager with a ReentrantLock.  Each
\* lock()/unlock() section is one step; what a handler does between and after
\* its sections are steps of their own, so other handlers can run in between.

\* A thread's locals in this controller: the game it holds, and the payload
\* fields and the connection it still needs.
IdleLocked ==
    [pc |-> "idle", gameId |-> NoGame, player |-> Null, move |-> NoMove, conn |-> Null]

Holding(pc, gameId) == [IdleLocked EXCEPT !.pc = pc, !.gameId = gameId]

InitLocked ==
    /\ obj = << >>
    /\ games = {}
    /\ waitingPlayers = [p \in Players |-> NoGame]
    /\ nextId = 1
    /\ attrs = [c \in Conns |-> NoAttrs]
    /\ thr = [t \in Threads |-> IdleLocked]
    /\ timers = {}
    /\ lastSent = NothingSent
    /\ clients = NoClients

\* A "system" message: type and content only.
SystemMessage(gameId, content) ==
    Send(gameId, [EmptyMessage EXCEPT !.type = "system", !.content = content])

\* joinGame: the payload check and the locked call of chessManager.joinGame.
LockedJoinRequest(t, c, player) ==
    /\ Serves(t)
    /\ IF player = Null
       THEN Reject(ErrorMessage("Invalid player data.", NoGame))
       ELSE \E r \in JoinGame(Manager, player) :
               /\ r.m.nextId <= MaxLockedGames + 1
               /\ Commit(r.m, [thr EXCEPT ![t] =
                            [Holding("bind", r.ret) EXCEPT !.player = player, !.conn = c]])
               /\ UNCHANGED <<attrs, timers>>

\* joinGame: the session attributes are written after the lock is released.
LockedJoinBind(t) ==
    /\ thr[t].pc = "bind"
    /\ attrs' = [attrs EXCEPT ![thr[t].conn] =
                    [gameId |-> thr[t].gameId, player |-> thr[t].player]]
    /\ Commit(Manager, [thr EXCEPT ![t] = Holding("joined", thr[t].gameId)])
    /\ UNCHANGED timers

\* joinGame: the game.joined broadcast.
LockedJoinBroadcast(t) ==
    /\ thr[t].pc = "joined"
    /\ JoinedMessage(t) # NoSend
    /\ Commit(Manager, [thr EXCEPT ![t] = Holding("joinedSystem", thr[t].gameId)])
    /\ UNCHANGED <<attrs, timers>>

\* joinGame: the system broadcast.
LockedJoinSystem(t) ==
    /\ thr[t].pc = "joinedSystem"
    /\ SystemMessage(thr[t].gameId, "has joined the game.") # NoSend
    /\ Commit(Manager, [thr EXCEPT ![t] = IdleLocked])
    /\ UNCHANGED <<attrs, timers>>

\* leaveGame: the payload check and the locked call of chessManager.leaveGame.
LockedLeaveRequest(t, player) ==
    /\ Serves(t)
    /\ IF LeaveError(player) # NoSend
       THEN Reject(LeaveError(player))
       ELSE \E r \in LeaveGame(Manager, player) :
               /\ Commit(r.m, [thr EXCEPT ![t] =
                            IF r.ret # NoGame
                            THEN Holding("leftSystem", r.ret)
                            ELSE IdleLocked])
               /\ UNCHANGED <<attrs, timers>>

\* leaveGame: the system broadcast.
LockedLeaveSystem(t) ==
    /\ thr[t].pc = "leftSystem"
    /\ SystemMessage(thr[t].gameId, "has left the game.") # NoSend
    /\ Commit(Manager, [thr EXCEPT ![t] = Holding("left", thr[t].gameId)])
    /\ UNCHANGED <<attrs, timers>>

\* leaveGame: the game.left broadcast.
LockedLeaveBroadcast(t) ==
    /\ thr[t].pc = "left"
    /\ LeftMessage(t) # NoSend
    /\ Commit(Manager, [thr EXCEPT ![t] = IdleLocked])
    /\ UNCHANGED <<attrs, timers>>

\* makeMove: the payload check and the locked lookup of the game.  A game
\* that is not found is answered with the error after the lock is released.
LockedMoveLookup(t, gameId, player, move) ==
    /\ Serves(t)
    /\ IF player = Null \/ gameId = NoGame \/ move = NoMove
       THEN Reject(ErrorMessage("Invalid move data.", NoGame))
       ELSE IF GetGame(Manager, gameId) = NoGame
       THEN Reject(ErrorMessage("Game not found or is already over.", gameId))
       ELSE /\ Len(obj[gameId].moveHistory) < MaxMoves
            /\ Commit(Manager, [thr EXCEPT ![t] =
                         [Holding("checkOver", gameId) EXCEPT !.player = player,
                                                              !.move = move]])
            /\ UNCHANGED <<attrs, timers>>

\* The checks makeMove makes on the game it holds, outside the lock, each on
\* the fields as they are when it is made: the next pc, or "idle" with the error.
LockedMoveCheck(pc, game, player) ==
    IF pc = "checkOver"
    THEN IF IsGameOver(game)
         THEN [pc |-> "idle", error |-> "Game not found or is already over."]
         ELSE [pc |-> "checkWaiting", error |-> Null]
    ELSE IF pc = "checkWaiting"
    THEN IF game.gameState = WAITING_FOR_PLAYER
         THEN [pc |-> "idle", error |-> "Game is waiting for another player to join."]
         ELSE [pc |-> "checkSeated", error |-> Null]
    ELSE IF pc = "checkSeated"
    THEN IF ~IsPlayerInGame(player, game)
         THEN [pc |-> "idle", error |-> "You are not a participant in this game."]
         ELSE [pc |-> "checkTurn", error |-> Null]
    ELSE IF game.turn # player
         THEN [pc |-> "idle", error |-> "It's not your turn."]
         ELSE [pc |-> "apply", error |-> Null]

MoveChecks == {"checkOver", "checkWaiting", "checkSeated", "checkTurn"}

\* makeMove: one of the checks between the two locked sections.
LockedMoveValidate(t) ==
    /\ thr[t].pc \in MoveChecks
    /\ LET check == LockedMoveCheck(thr[t].pc, obj[thr[t].gameId], thr[t].player)
       IN  Commit(Manager, [thr EXCEPT ![t] =
                     IF check.pc = "idle"
                     THEN IdleLocked
                     ELSE [thr[t] EXCEPT !.pc = check.pc]])
    /\ UNCHANGED <<attrs, timers>>

\* makeMove: the locked call of game.makeMove; when it returns false the
\* error is sent after the lock is released.
LockedMoveApply(t) ==
    /\ thr[t].pc = "apply"
    /\ LET made == MakeMove(obj[thr[t].gameId], thr[t].player, thr[t].move)
       IN  Commit([Manager EXCEPT !.obj[thr[t].gameId] = made.game],
                  [thr EXCEPT ![t] =
                      IF made.ok THEN Holding("moved", thr[t].gameId) ELSE IdleLocked])
    /\ UNCHANGED <<attrs, timers>>

\* makeMove: the game.move broadcast.
LockedMoveBroadcast(t) ==
    /\ thr[t].pc = "moved"
    /\ MovedMessage(t) # NoSend
    /\ Commit(Manager, [thr EXCEPT ![t] = Holding("moveOver", thr[t].gameId)])
    /\ UNCHANGED <<attrs, timers>>

\* makeMove: if the game is over by now, the game.gameOver broadcast and the
\* start of the delayed-removal thread; the return.
LockedMoveGameOver(t) ==
    /\ thr[t].pc = "moveOver"
    /\ IF IsGameOver(obj[thr[t].gameId])
       THEN /\ GameOverMessage(t) # NoSend
            /\ timers' = timers \cup {thr[t].gameId}
       ELSE UNCHANGED timers
    /\ Commit(Manager, [thr EXCEPT ![t] = IdleLocked])
    /\ UNCHANGED attrs

\* The system message handleSessionDisconnect sends for connection c while it
\* holds the lock, or NoSend when it returns before.
LockedDisconnectSystem(c) ==
    IF attrs[c].gameId = NoGame \/ attrs[c].player = Null
    THEN NoSend
    ELSE IF GetGame(Manager, attrs[c].gameId) = NoGame
    THEN NoSend
    ELSE SystemMessage(attrs[c].gameId, "has disconnected.")

\* handleSessionDisconnect, up to the release of the lock.
LockedSessionDisconnect(t, c) ==
    /\ Serves(t)
    /\ attrs' = [attrs EXCEPT ![c] = NoAttrs]
    /\ UNCHANGED timers
    /\ IF LockedDisconnectSystem(c) = NoSend
       THEN UNCHANGED <<obj, games, waitingPlayers, nextId, thr, lastSent, clients>>
       ELSE LET d == DisconnectPlayer(Manager, attrs[c].gameId, attrs[c].player)
            IN  Commit(d.m, [thr EXCEPT ![t] =
                             IF d.remove
                             THEN IdleLocked
                             ELSE Holding("disconnected", attrs[c].gameId)])

\* handleSessionDisconnect: the game.gameOver broadcast and the start of the
\* delayed-removal thread.
LockedDisconnectBroadcast(t) ==
    /\ thr[t].pc = "disconnected"
    /\ GameOverMessage(t) # NoSend
    /\ timers' = timers \cup {thr[t].gameId}
    /\ Commit(Manager, [thr EXCEPT ![t] = IdleLocked])
    /\ UNCHANGED attrs

\* Two names join, leave, move and disconnect through this controller.
NextLocked ==
    \/ \E t \in Threads, c \in Conns, player \in TwoPlayers \cup {Null} :
          LockedJoinRequest(t, c, player)
    \/ \E t \in Threads : LockedJoinBind(t)
    \/ \E t \in Threads : LockedJoinBroadcast(t)
    \/ \E t \in Threads : LockedJoinSystem(t)
    \/ \E t \in Threads, player \in TwoPlayers \cup {Null} : LockedLeaveRequest(t, player)
    \/ \E t \in Threads : LockedLeaveSystem(t)
    \/ \E t \in Threads : LockedLeaveBroadcast(t)
    \/ \E t \in Threads, gameId \in GameIds \cup {NoGame}, player \in TwoPlayers \cup {Null},
          move \in Moves \cup {NoMove} : LockedMoveLookup(t, gameId, player, move)
    \/ \E t \in Threads : LockedMoveValidate(t)
    \/ \E t \in Threads : LockedMoveApply(t)
    \/ \E t \in Threads : LockedMoveBroadcast(t)
    \/ \E t \in Threads : LockedMoveGameOver(t)
    \/ \E t \in Threads, c \in Conns : LockedSessionDisconnect(t, c)
    \/ \E t \in Threads : LockedDisconnectBroadcast(t)
    \/ \E gameId \in GameIds : DelayedRemove(gameId)

SpecLocked == InitLocked /\ [][NextLocked]_vars

\* ------------------------------------------------------------ board replay
\* One game with both seats taken, as two joins leave it; the players send
\* the board tokens, and each accepted move is broadcast with the board.
PairedManager ==
    LET empty == [obj |-> << >>, games |-> {},
                  waitingPlayers |-> [p \in Players |-> NoGame], nextId |-> 1]
        first == CHOOSE r \in JoinGame(empty, "alice") : TRUE
    IN  CHOOSE r \in JoinGame(first.m, "bob") : TRUE

InitBoard ==
    /\ obj = PairedManager.m.obj
    /\ games = PairedManager.m.games
    /\ waitingPlayers = PairedManager.m.waitingPlayers
    /\ nextId = PairedManager.m.nextId
    /\ attrs = [c \in Conns |->
                  [gameId |-> PairedManager.ret,
                   player |-> IF c = "s1" THEN "alice" ELSE "bob"]]
    /\ thr = [t \in Threads |-> Idle]
    /\ timers = {}
    /\ lastSent = NothingSent
    /\ clients = NoClients

NextBoard ==
    \/ \E t \in Threads, player \in TwoPlayers, move \in BoardMoves :
          MoveRequest(t, PairedManager.ret, player, move)
    \/ \E t \in Threads : MoveBroadcast(t)
    \/ \E t \in Threads : MoveGameOver(t)

SpecBoard == InitBoard /\ [][NextBoard]_vars

\* ------------------------------------------------------- publication order
\* makeMove of the controller on one paired game, with the statements after
\* its synchronized block taken one at a time: gameToMessage and setType
\* build the message from the object as it is then, convertAndSend hands it
\* to the broker.  No lock is held.

\* makeMove: gameToMessage(game) and setType("game.move").
MoveBuild(t) ==
    /\ thr[t].pc = "moved"
    /\ thr' = [thr EXCEPT ![t] = [pc |-> "built", gameId |-> thr[t].gameId,
                                  built |-> MovedMessage(t)]]
    /\ UNCHANGED <<obj, games, waitingPlayers, nextId, attrs, timers, lastSent, clients>>

\* makeMove: convertAndSend of the message built before.
MoveSend(t) ==
    /\ thr[t].pc = "built"
    /\ lastSent' = [lastSent EXCEPT ![thr[t].built.topic] = <<thr[t].built.message>>]
    /\ thr' = [thr EXCEPT ![t] = [pc |-> "moveOver", gameId |-> thr[t].gameId]]
    /\ UNCHANGED <<obj, games, waitingPlayers, nextId, attrs, timers, clients>>

NextOrder ==
    \/ \E t \in Threads, player \in TwoPlayers, move \in BoardMoves :
          MoveRequest(t, PairedManager.ret, player, move)
    \/ \E t \in Threads : MoveBuild(t)
    \/ \E t \in Threads : MoveSend(t)
    \/ \E t \in Threads : MoveGameOver(t)

SpecOrder == InitBoard /\ [][NextOrder]_vars

\* ----------------------------------------------------------------- clients
\* The join handler together with the clients of ChessGame.jsx.  A message
\* reaches the clients that are subscribed to its topic when it is sent, once,
\* and nobody else.

\* stompClient.onConnect: the subscription to /topic/chess is registered.
\* The join that onConnect published before is served by joinGame; nothing
\* orders the two.
ClientSubscribe(p) ==
    /\ ~clients[p].lobby
    /\ clients' = [clients EXCEPT ![p].lobby = TRUE]
    /\ UNCHANGED <<obj, games, waitingPlayers, nextId, attrs, thr, timers, lastSent>>

\* handleGameJoined(update) in the client of p.
HandleGameJoined(client, p, update) ==
    IF update.player1 = p
    THEN [client EXCEPT !.playerColor = "w",
                        !.opponent = IF update.player2 # Null
                                     THEN update.player2 ELSE @]
    ELSE IF update.player2 = p
    THEN [client EXCEPT !.playerColor = "b",
                        !.opponent = IF update.player1 # Null
                                     THEN update.player1 ELSE @]
    ELSE client

\* The callback of the /topic/chess subscription in the client of p: a
\* game.subscribe message with a game id makes the client subscribe to that
\* game's topic.
HandleLobbyMessage(client, update) ==
    IF update.type = "game.subscribe" /\ update.gameId # NoGame
    THEN [client EXCEPT !.gameId = update.gameId,
                        !.topics = @ \cup {update.gameId}]
    ELSE client

\* joinGame: the game.joined broadcast, delivered to the subscribers of the
\* game's topic.
JoinBroadcastDelivered(t) ==
    /\ thr[t].pc = "joined"
    /\ clients' = [p \in Players |->
                     IF JoinedMessage(t).topic \in clients[p].topics
                     THEN HandleGameJoined(clients[p], p, JoinedMessage(t).message)
                     ELSE clients[p]]
    /\ thr' = [thr EXCEPT ![t].pc = "subscribe"]
    /\ UNCHANGED <<obj, games, waitingPlayers, nextId, attrs, timers, lastSent>>

\* joinGame: the game.subscribe notice, sent only while the game waits for a
\* player and delivered to the subscribers of the lobby topic; the return.
JoinSubscribeDelivered(t) ==
    /\ thr[t].pc = "subscribe"
    /\ clients' = [p \in Players |->
                     IF SubscribeMessage(t) # NoSend /\ clients[p].lobby
                     THEN HandleLobbyMessage(clients[p], SubscribeMessage(t).message)
                     ELSE clients[p]]
    /\ obj' = Sweep(obj, games, [thr EXCEPT ![t] = Idle])
    /\ thr' = [thr EXCEPT ![t] = Idle]
    /\ UNCHANGED <<games, waitingPlayers, nextId, attrs, timers, lastSent>>

NextClients ==
    \/ \E p \in Players : ClientSubscribe(p)
    \/ \E t \in Threads, c \in Conns, player \in Players : JoinRequest(t, c, player)
    \/ \E t \in Threads : JoinBroadcastDelivered(t)
    \/ \E t \in Threads : JoinSubscribeDelivered(t)

\* A handler that has left its synchronized block runs to its end, and a
\* subscription that a client asked for is registered.  Whether a further
\* player ever joins is left open.
FairClients ==
    /\ \A t \in Threads : WF_vars(JoinBroadcastDelivered(t))
    /\ \A t \in Threads : WF_vars(JoinSubscribeDelivered(t))
    /\ \A p \in Players : WF_vars(ClientSubscribe(p))

SpecClients == Init /\ [][NextClients]_vars /\ FairClients

\* ------------------------------------------------------------ properties

\* `player` sits in the stored game g.
SeatedIn(player, g) ==
    /\ player # Null
    /\ g \in games
    /\ (obj[g].player1 = player \/ obj[g].player2 = player)

\* The stored games `player` sits in.
SessionsOf(player) == {g \in games : SeatedIn(player, g)}

Active(g) == obj[g].gameState \in {PLAYER1_TURN, PLAYER2_TURN}

\* C1: the k-th accepted move of a session is made by player1 when k is odd
\* and by player2 when k is even: every step in which a move request extends a
\* moveHistory extends it by one, and its sender is the seat of that parity.
C1_TurnAlternates ==
    [][ \A t \in Threads, g \in GameIds, player \in PlayerInputs, move \in Moves :
          ( /\ g \in DOMAIN obj
            /\ obj'[g].moveHistory # obj[g].moveHistory
            /\ MoveRequest(t, g, player, move) )
          => LET k == Len(obj'[g].moveHistory)
             IN  /\ k = Len(obj[g].moveHistory) + 1
                 /\ player # Null
                 /\ player = IF k % 2 = 1 THEN obj[g].player1 ELSE obj[g].player2
                 /\ obj'[g].player1 = obj[g].player1
                 /\ obj'[g].player2 = obj[g].player2 ]_vars

\* C1 witness: both seats have moved, player1 first, and it is player1's turn again.
C1_Witness ==
    \E g \in games :
        /\ Len(obj[g].moveHistory) = 2
        /\ obj[g].gameState = PLAYER1_TURN
        /\ obj[g].turn = obj[g].player1

\* Thread t has just left joinGame's synchronized block with a game.
JoinServed(t) == thr[t].pc = "idle" /\ thr'[t].pc = "joined"

\* C2: a join by a name that owns no session, while the Waiting Pool holds an
\* entry of another name w, returns w's pending session with the joiner as
\* player2, status PLAYER1_TURN and turn player1, removes w's entry and creates
\* no session.
C2_JoinPairsWithPoolEntry ==
    [][ \A t \in Threads, c \in Conns, player \in Players :
          ( /\ JoinServed(t)
            /\ SessionsOf(player) = {}
            /\ \E w \in Players \ {player} : waitingPlayers[w] # NoGame
            /\ JoinRequest(t, c, player) )
          => \E w \in Players \ {player} :
                LET g == waitingPlayers[w]
                IN  /\ g # NoGame
                    /\ thr'[t].gameId = g
                    /\ g \in games'
                    /\ obj'[g].player1 = w
                    /\ obj'[g].player2 = player
                    /\ obj'[g].gameState = PLAYER1_TURN
                    /\ obj'[g].turn = w
                    /\ waitingPlayers'[w] = NoGame
                    /\ games' = games
                    /\ nextId' = nextId ]_vars

\* No name other than `player` sits in a stored game that waits for a player.
NoOtherWaiting(player) ==
    \A g \in games :
        obj[g].gameState = WAITING_FOR_PLAYER => SeatedIn(player, g)

\* C3: a join by a name that owns no session, while no other participant is
\* waiting, creates a session with a fresh id, the joiner as player1, no
\* player2 and status WAITING_FOR_PLAYER; the store gains exactly that session
\* and the pool exactly the entry joiner -> that session.
C3_JoinCreatesWaitingSession ==
    [][ \A t \in Threads, c \in Conns, player \in Players :
          ( /\ JoinServed(t)
            /\ SessionsOf(player) = {}
            /\ NoOtherWaiting(player)
            /\ JoinRequest(t, c, player) )
          => LET g == thr'[t].gameId
             IN  /\ g \notin DOMAIN obj
                 /\ games' = games \cup {g}
                 /\ obj'[g].player1 = player
                 /\ obj'[g].player2 = Null
                 /\ obj'[g].gameState = WAITING_FOR_PLAYER
                 /\ obj'[g].moveHistory = << >>
                 /\ \A h \in games : obj'[h] = obj[h]
                 /\ waitingPlayers' = [waitingPlayers EXCEPT ![player] = g] ]_vars

\* C3 witness: a second waiting session was created after the first one's
\* only player had gone.
C3_Witness ==
    \E g \in games :
        /\ g > 1
        /\ obj[g].gameState = WAITING_FOR_PLAYER
        /\ obj[g].player1 # Null
        /\ waitingPlayers[obj[g].player1] = g
        /\ \E t \in Threads : thr[t] = [pc |-> "joined", gameId |-> g]

\* C4: a join by a name already seated in a waiting or active session is not
\* rejected, returns that session, and leaves the store and the pool unchanged.
C4_RejoinReturnsSameSession ==
    \A player \in Players : \A g \in SessionsOf(player) :
        ~IsGameOver(obj[g])
        => /\ JoinError(Manager, player) = NoSend
           /\ \A r \in JoinGame(Manager, player) : r.ret = g /\ r.m = Manager

\* C5: no name is seated, as player1 or player2, in more than one stored game.
C5_SeatedInAtMostOneSession ==
    \A player \in Players : Cardinality(SessionsOf(player)) <= 1

\* C5 witness: a game is stored next to a finished one, after moves, a
\* disconnect and a new join, and the two share no name.
C5_Witness ==
    \E g, h \in games :
        /\ g # h
        /\ IsGameOver(obj[g])
        /\ obj[g].moveHistory # << >>
        /\ obj[h].player1 # Null
        /\ SessionsOf(obj[h].player1) = {h}

\* Every stored game with both seats taken is the pairing of two distinct
\* names and has started; no name sits in two games; no two stored games wait
\* for a player at the same time; and once all three names
\* are seated, the store holds the first waiting player's game with one of the
\* two joiners as player2, and the other joiner's waiting game.
JoinsPaired ==
    /\ \A g \in games :
          obj[g].player2 # Null
          => /\ obj[g].player1 \notin {Null, obj[g].player2}
             /\ obj[g].gameState = PLAYER1_TURN
             /\ obj[g].turn = obj[g].player1
    /\ \A player \in Players : Cardinality(SessionsOf(player)) <= 1
    /\ Cardinality({g \in games : obj[g].gameState = WAITING_FOR_PLAYER}) <= 1
    /\ (\A player \in Players : SessionsOf(player) # {})
       => \E g, h \in games :
             /\ g < h
             /\ games = {g, h}
             /\ obj[g].player2 # Null
             /\ obj[h].player2 = Null
             /\ obj[h].gameState = WAITING_FOR_PLAYER
             /\ Players = {obj[g].player1, obj[g].player2, obj[h].player1}

\* A seat of player2 that is taken is not written again, and a served join
\* leaves the joiner seated in the game it returns.
JoinsSeatOnce ==
    /\ \A g \in games :
          obj[g].player2 # Null => obj'[g].player2 = obj[g].player2
    /\ \A t \in Threads, c \in Conns, player \in Players :
          (JoinServed(t) /\ JoinRequest(t, c, player))
          => LET g == thr'[t].gameId
             IN  /\ g \in games'
                 /\ (obj'[g].player1 = player \/ obj'[g].player2 = player)

\* C6: with one name w waiting, joins of two other names b and c served by
\* concurrent threads pair exactly one of them with w, give the other a new
\* WAITING game of its own, never write a player2 seat twice and leave
\* neither joiner without a game.
C6_ConcurrentJoinsPairOnce == []JoinsPaired /\ [][JoinsSeatOnce]_vars

\* C6 witness: all three names are seated while both joins are still being
\* served, one thread holding w's game and the other the new game.
C6_Witness ==
    /\ \A player \in Players : SessionsOf(player) # {}
    /\ thr["t1"].pc # "idle"
    /\ thr["t2"].pc # "idle"
    /\ {thr["t1"].gameId, thr["t2"].gameId} = games
    /\ Cardinality(games) = 2

\* `player` is the only name seated in some stored game.
SoleOccupant(player) ==
    \E g \in SessionsOf(player) :
        obj[g].player1 = Null \/ obj[g].player2 = Null

\* leaveGame of a sole occupant returns null and removes its game and entry.
SoleLeaveRemoves ==
    \A player \in Players :
        SoleOccupant(player)
        => \A r \in LeaveGame(Manager, player) :
              /\ r.ret = NoGame
              /\ r.m.games = games \ SessionsOf(player)
              /\ r.m.waitingPlayers[player] = NoGame

\* The handler that serves a sole occupant's leave ends in its synchronized
\* block: the thread has no broadcast to make and starts no removal thread.
SoleLeaveSilent ==
    \A t \in Threads, player \in Players :
        ( /\ SoleOccupant(player)
          /\ attrs' = attrs
          /\ LeaveRequest(t, player) )
        => /\ games' = games \ SessionsOf(player)
           /\ waitingPlayers'[player] = NoGame
           /\ thr' = thr
           /\ thr[t].pc = "idle"
           /\ timers' = timers

\* C7: a leave by the sole occupant of a game removes the game from the store
\* and the name's entry from the pool, returns nothing, and the handler ends
\* without a game.left or game.gameOver broadcast to make.
C7_SoleOccupantLeaves == []SoleLeaveRemoves /\ [][SoleLeaveSilent]_vars

\* C7 witness: a name left the game it waited in alone: the game is gone from
\* the store, the pool is empty and no thread has anything to send.
C7_Witness ==
    /\ games = {}
    /\ nextId = 2
    /\ \A player \in Players : waitingPlayers[player] = NoGame
    /\ \E c \in Conns : attrs[c].gameId = 1
    /\ \A t \in Threads : thr[t].pc = "idle"

\* C8: every stored game has at least one seat filled.
C8_NoEmptySessionRetained ==
    \A g \in games : obj[g].player1 # Null \/ obj[g].player2 # Null

\* C8 witness: a game that lost one player to a disconnect is stored with
\* the other one, while the first game is gone.
C8_Witness ==
    \E g \in games :
        /\ IsGameOver(obj[g])
        /\ (obj[g].player1 = Null) # (obj[g].player2 = Null)
        /\ 1 \notin games

\* `player` sits in a stored game whose other seat is taken too.
TwoSeated(player) ==
    \E g \in SessionsOf(player) :
        obj[g].player1 # Null /\ obj[g].player2 # Null

\* The game.left message a thread is about to send carries a terminal
\* snapshot: a _WON status and, as winner, the player of that seat.
LeftSnapshotTerminal ==
    \A t \in Threads :
        thr[t].pc = "left"
        => LET message == LeftMessage(t).message
           IN  /\ LeftMessage(t).topic = thr[t].gameId
               /\ message.type = "game.left"
               /\ message.winner # Null
               /\ \/ message.gameState = PLAYER1_WON /\ message.winner = message.player1
                  \/ message.gameState = PLAYER2_WON /\ message.winner = message.player2

LeftAfterDelete ==
    \A t \in Threads : thr[t].pc = "left" => thr[t].gameId \notin games

\* A leave by one of two seated players gives the other one the _WON status
\* and the win, removes the game and leaves the thread with the game to send.
LeaveEndsSession ==
    \A t \in Threads, player \in Players :
        ( /\ TwoSeated(player)
          /\ attrs' = attrs
          /\ LeaveRequest(t, player) )
        => \E g \in SessionsOf(player) :
              LET other == IF obj[g].player1 = player
                           THEN obj[g].player2 ELSE obj[g].player1
              IN  /\ thr'[t] = [pc |-> "left", gameId |-> g]
                  /\ games' = games \ {g}
                  /\ obj'[g].winner = other
                  /\ obj'[g].gameState =
                        IF obj[g].player1 = other THEN PLAYER1_WON ELSE PLAYER2_WON
                  /\ obj'[g].player1 = obj[g].player1
                  /\ obj'[g].player2 = obj[g].player2

BadTokenRejected ==
    \A g \in games, move \in Moves :
        (Len(move) # 4 /\ Active(g) /\ obj[g].turn # Null)
        => /\ MoveError(Manager, g, obj[g].turn, move)
                = ErrorMessage("Invalid move. Please try again.", g)
           /\ MakeMove(obj[g], obj[g].turn, move) = [ok |-> FALSE, game |-> obj[g]]

\* No step is a move request with such a token that the handler accepts:
\* every such request takes the rejecting branch, which changes nothing.
BadTokenNeverAccepted ==
    \A t \in Threads, g \in GameIds, player \in Players, move \in Moves :
        ~ ( /\ Len(move) # 4
            /\ thr[t].pc = "idle"
            /\ thr'[t].pc = "moved"
            /\ MoveRequest(t, g, player, move) )

\* C10: a move request whose token is not 4 characters long is rejected even
\* when the player whose turn it is sends it on an active game, and leaves
\* the game's moveHistory, turn and status unchanged.
C10_BadTokenRejected == []BadTokenRejected /\ [][BadTokenNeverAccepted]_vars

\* C10 witness: an active game after an accepted move, player2 to move.
C10_Witness ==
    \E g \in games :
        /\ Active(g)
        /\ Len(obj[g].moveHistory) = 1
        /\ obj[g].turn = obj[g].player2
        /\ obj[g].turn # Null

\* A game whose status is terminal keeps its moveHistory, turn and status for
\* as long as the object is referenced.
TerminalFrozen ==
    \A g \in DOMAIN obj :
        (IsGameOver(obj[g]) /\ obj'[g] # Collected)
        => /\ obj'[g].moveHistory = obj[g].moveHistory
           /\ obj'[g].turn = obj[g].turn
           /\ obj'[g].gameState = obj[g].gameState

\* C11: once a game's status is terminal (PLAYER1_WON, PLAYER2_WON or TIE) no
\* move request on it is accepted: its moveHistory, turn and status never
\* change again, under every interleaving of the move, leave and disconnect
\* handlers.
C11_TerminalNeverChanges == [][TerminalFrozen]_vars

\* The requests a chess.move can carry.
MoveInputs == (GameIds \cup {NoGame}) \X (Players \cup {Null}) \X (Moves \cup {NoMove})

\* The request is answered with an error, and the answer is one message of
\* type "error" while the store, the pool and every game are as before.
RejectedMoveChangesNothing ==
    \A in \in MoveInputs :
        MoveError(Manager, in[1], in[2], in[3]) # NoSend
        => /\ MoveError(Manager, in[1], in[2], in[3]).message.type = "error"
           /\ MoveOutcome(Manager, in[1], in[2], in[3]) = Manager

\* A thread gets to send game.move only from a request that was accepted:
\* the request's token is the last one of the game's history.
MovedOnlyWhenAccepted ==
    \A t \in Threads :
        (thr[t].pc = "idle" /\ thr'[t].pc = "moved")
        => LET g == thr'[t].gameId
           IN  /\ g \in games
               /\ \E player \in Players, move \in Moves :
                     /\ MoveError(Manager, g, player, move) = NoSend
                     /\ obj'[g].moveHistory = Append(obj[g].moveHistory, move)

ScenarioStart ==
    /\ games = {}
    /\ \A p \in Players : waitingPlayers[p] = NoGame

\* S is stored, WAITING, with Alice in the first seat.
ScenarioWaiting(S) ==
    /\ games = {S}
    /\ obj[S].gameState = WAITING_FOR_PLAYER
    /\ obj[S].player1 = "alice"
    /\ obj[S].player2 = Null
    /\ obj[S].moveHistory = << >>
    /\ waitingPlayers = [p \in Players |-> IF p = "alice" THEN S ELSE NoGame]

\* S is stored with Alice and Bob seated and the given status and history.
ScenarioPlaying(S, state, history) ==
    /\ games = {S}
    /\ obj[S].gameState = state
    /\ obj[S].player1 = "alice"
    /\ obj[S].player2 = "bob"
    /\ obj[S].moveHistory = history

\* Bob has disconnected: S is still stored, won by Alice, after "e2e4".
ScenarioWon(S) ==
    /\ S \in games
    /\ obj[S].gameState = PLAYER1_WON
    /\ obj[S].winner = "alice"
    /\ obj[S].player1 = "alice"
    /\ obj[S].moveHistory = <<E2E4>>

\* Each step of the scenario, taken from its stage, ends in the next stage.
ScenarioStep ==
    /\ ScenarioStart
       => \A t \in Threads, c \in Conns :
             JoinRequest(t, c, "alice") => \E S \in GameIds : ScenarioWaiting(S)'
    /\ \A S \in games :
          /\ ScenarioWaiting(S)
             => \A t \in Threads, c \in Conns :
                   JoinRequest(t, c, "bob")
                   => /\ ScenarioPlaying(S, PLAYER1_TURN, << >>)'
                      /\ attrs'[c] = [gameId |-> S, player |-> "bob"]
          /\ ScenarioPlaying(S, PLAYER1_TURN, << >>)
             => \A t \in Threads :
                   (thr'[t] # thr[t] /\ MoveRequest(t, S, "alice", E2E4))
                   => ScenarioPlaying(S, PLAYER2_TURN, <<E2E4>>)'
          /\ ScenarioPlaying(S, PLAYER2_TURN, <<E2E4>>)
             => \A t \in Threads, c \in Conns :
                   (attrs[c] = [gameId |-> S, player |-> "bob"] /\ SessionDisconnect(t, c))
                   => ScenarioWon(S)'
          /\ (ScenarioWon(S) /\ S \in timers /\ S \notin timers')
             => S \notin games'

\* C13: the scenario holds step by step: Alice joins and a WAITING game S
\* holds her in the first seat; Bob joins and S is PLAYER1_TURN with both
\* seated; Alice plays "e2e4" and S is PLAYER2_TURN with history <<"e2e4">>;
\* Bob's connection drops and S is PLAYER1_WON with winner Alice and still
\* stored; when the delayed removal runs S is no longer stored.
C13_ScenarioRun == [][ScenarioStep]_vars

\* The scenario's fourth stage with the removal pending.
C13_Witness ==
    \E S \in games :
        /\ ScenarioWon(S)
        /\ S \in timers
        /\ obj[S].player2 = Null

\* The connections whose attributes name a stored game and one of its players.
BoundConns ==
    {c \in Conns : /\ attrs[c].gameId \in games
                   /\ attrs[c].player # Null
                   /\ IsPlayerInGame(attrs[c].player, obj[attrs[c].gameId])}

\* C14: a disconnect of player p bound to game S makes the same mutation as
\* leaveGame(p): S's seats, status and winner after the disconnect's
\* synchronized block equal those after leaveGame(p), and once the removal
\* has run the store and the pool equal those after leaveGame(p).
C14_DisconnectEqualsLeave ==
    \A c \in BoundConns :
        LET S == attrs[c].gameId
            p == attrs[c].player
            d == DisconnectPlayer(Manager, S, p).m
            torn == RemoveGame(d, S)
        IN  \A e \in LeaveGame(Manager, p) :
               /\ d.obj[S].player1 = e.m.obj[S].player1
               /\ d.obj[S].player2 = e.m.obj[S].player2
               /\ d.obj[S].gameState = e.m.obj[S].gameState
               /\ d.obj[S].winner = e.m.obj[S].winner
               /\ torn.games = e.m.games
               /\ torn.waitingPlayers = e.m.waitingPlayers

\* Thread t has ended a two-seated game in handleSessionDisconnect's
\* synchronized block and is about to send game.gameOver.
AboutToSendGameOver(t) ==
    /\ thr[t].pc = "disconnected"
    /\ IsGameOver(obj[thr[t].gameId])

\* C15: after a player of a two-seated game disconnects, game.gameOver is
\* sent while the game is still stored (the removal comes only after the
\* delay that the send starts).
C15_GameOverSentWhileStored ==
    \A t \in Threads : AboutToSendGameOver(t) => thr[t].gameId \in games

\* The step in which the connection bound to (S, p) drops leaves S removed,
\* or no longer WAITING and without p in a seat.
DisconnectUnseats ==
    \A c \in BoundConns :
        attrs'[c] = NoAttrs
        => LET S == attrs[c].gameId
               p == attrs[c].player
           IN  \/ S \notin games'
               \/ /\ obj'[S].gameState # WAITING_FOR_PLAYER
                  /\ ~IsPlayerInGame(p, obj'[S])

\* A removed game never returns to the store, and a stored game that is past
\* WAITING never gets a seat filled.
SeatsNeverRefilled ==
    \A S \in DOMAIN obj :
        /\ S \notin games => S \notin games'
        /\ (S \in games /\ S \in games' /\ obj[S].gameState # WAITING_FOR_PLAYER)
           => /\ obj'[S].gameState # WAITING_FOR_PLAYER
              /\ obj'[S].player1 \in {obj[S].player1, Null}
              /\ obj'[S].player2 \in {obj[S].player2, Null}

\* joinGame(p) neither returns nor touches a stored game that is past
\* WAITING and does not hold p.
JoinSkipsPlayedGames ==
    \A p \in Players, S \in games :
        (obj[S].gameState # WAITING_FOR_PLAYER /\ ~IsPlayerInGame(p, obj[S]))
        => \A r \in JoinGame(Manager, p) :
              /\ r.ret # S
              /\ r.m.obj[S] = obj[S]

\* C16: after player p has disconnected from game S, no later join of p,
\* during the removal delay or after it, returns S or seats p in S again:
\* the disconnect leaves S removed or ended without p, such a game is never
\* given to a joining player, and its seats are never filled again.
C16_NoRejoinAfterDisconnect ==
    []JoinSkipsPlayedGames /\ [][DisconnectUnseats /\ SeatsNeverRefilled]_vars

\* Bob has disconnected from a game that is still stored, and has joined
\* again: he sits in another game.
C16_Witness ==
    \E S \in games, g \in games :
        /\ g # S
        /\ obj[S].gameState = PLAYER1_WON
        /\ obj[S].player1 = "alice"
        /\ obj[S].player2 = Null
        /\ IsPlayerInGame("bob", obj[g])

\* Thread t has looked a game up for a move and has not yet applied the move.
BetweenValidationAndApply(t) == thr[t].pc \in MoveChecks \cup {"apply"}

\* While a move handler is between its validation and its application of
\* the move, a step of another handler neither changes the game it validated
\* nor removes it from the store.
NoInterleavingInMove ==
    \A t \in Threads :
        (BetweenValidationAndApply(t) /\ thr'[t] = thr[t])
        => /\ obj'[thr[t].gameId] = obj[thr[t].gameId]
           /\ thr[t].gameId \in games => thr[t].gameId \in games'

\* C17: a read-then-write sequence on the store is one atomic unit: between
\* a move handler's validation of the game and its application of the move
\* no join, leave, move or disconnect changes the store.
C17_MoveIsAtomic == [][NoInterleavingInMove]_vars

\* C18: no message of any kind is sent while the sending handler holds the
\* manager's lock: whatever request arrives, what its handler sends from
\* inside the synchronized block is nothing.
C18_NothingSentUnderLock ==
    /\ \A p \in PlayerInputs : JoinErrorUnderLock(Manager, p) = NoSend
    /\ \A in \in MoveInputs :
          MoveErrorUnderLock(Manager, in[1], in[2], in[3]) = NoSend

StoredOverAwaitsRemoval ==
    \A S \in games :
        IsGameOver(obj[S])
        => /\ obj[S].player1 = Null \/ obj[S].player2 = Null
           /\ obj[S].winner # Null
           /\ obj[S].winner \in {obj[S].player1, obj[S].player2}
           /\ \/ S \in timers
              \/ \E t \in Threads : thr[t].pc = "disconnected" /\ thr[t].gameId = S

\* A step leaves a game that it ended in the store only if it is the drop
\* of a connection bound to the game; a leave removes the game it ends.
OverAndStoredOnlyByDisconnect ==
    \A S \in games :
        (~IsGameOver(obj[S]) /\ S \in games' /\ IsGameOver(obj'[S]))
        => \E c \in BoundConns : attrs[c].gameId = S /\ attrs'[c] = NoAttrs

StandardRows ==
    << <<"r", "n", "b", "q", "k", "b", "n", "r">>,
       <<"p", "p", "p", "p", "p", "p", "p", "p">>,
       <<" ", " ", " ", " ", " ", " ", " ", " ">>,
       <<" ", " ", " ", " ", " ", " ", " ", " ">>,
       <<" ", " ", " ", " ", " ", " ", " ", " ">>,
       <<" ", " ", " ", " ", " ", " ", " ", " ">>,
       <<"P", "P", "P", "P", "P", "P", "P", "P">>,
       <<"R", "N", "B", "Q", "K", "B", "N", "R">> >>

\* For every stored game: with an empty history the board is the standard
\* position; a second getBoard() returns the same board as the first; and
\* getBoard() leaves moveHistory, turn and gameState as they were.
BoardDerivationPure ==
    \A g \in games :
        /\ obj[g].moveHistory = << >>
           => \A row \in 0 .. 7, col \in 0 .. 7 :
                 GetBoard(obj[g])[row][col] = StandardRows[row + 1][col + 1]
        /\ GetBoard(AfterGetBoard(obj[g])) = GetBoard(obj[g])
        /\ AfterGetBoard(obj[g]).moveHistory = obj[g].moveHistory
        /\ AfterGetBoard(obj[g]).turn = obj[g].turn
        /\ AfterGetBoard(obj[g]).gameState = obj[g].gameState

\* The broadcast of a move, which derives the board, changes no game.
BoardReadLeavesGames ==
    \A t \in Threads :
        (thr[t].pc = "moved" /\ thr'[t].pc = "moveOver")
        => /\ obj' = obj
           /\ MovedMessage(t).message.board = GetBoard(obj'[thr[t].gameId])

TopicOfRequest(gameId) == IF gameId # NoGame THEN gameId ELSE Lobby

\* C21: every error message goes to the topic of the game id the rejected
\* request carries whenever it carries one, and to the lobby only when it
\* carries none (a join or a leave carries none); sending it changes no game.
C21_ErrorGoesToRequestTopic ==
    /\ \A p \in PlayerInputs :
          /\ JoinError(Manager, p) # NoSend => JoinError(Manager, p).topic = Lobby
          /\ LeaveError(p) # NoSend => LeaveError(p).topic = Lobby
    /\ \A in \in MoveInputs :
          MoveError(Manager, in[1], in[2], in[3]) # NoSend
          => /\ MoveError(Manager, in[1], in[2], in[3]).topic = TopicOfRequest(in[1])
             /\ MoveError(Manager, in[1], in[2], in[3]).message.type = "error"
             /\ MoveOutcome(Manager, in[1], in[2], in[3]).obj = obj

\* The pool entries of players other than p, as joinGame(p) finds them after
\* it has dropped p's own entry.
OtherEntries(p) == {w \in Players \ {p} : waitingPlayers[w] # NoGame}

\* The entry that has been in the pool longest: an entry is put when its
\* game is created, and game ids are issued in increasing order.
IsEarliestEntry(w, p) ==
    /\ w \in OtherEntries(p)
    /\ \A v \in OtherEntries(p) : waitingPlayers[w] <= waitingPlayers[v]

\* C22: when the pool holds entries of other players, joinGame(p) of a
\* player who is in no game has one possible outcome, and it seats p in the
\* game of the entry that has been in the pool longest.
C22_JoinPairsEarliestEntry ==
    \A p \in Players :
        (OtherEntries(p) # {} /\ ~IsPlayerInAnyGame(Manager, p))
        => /\ Cardinality(JoinGame(Manager, p)) = 1
           /\ \A r \in JoinGame(Manager, p) :
                 \E w \in Players :
                    /\ IsEarliestEntry(w, p)
                    /\ r.ret = waitingPlayers[w]
                    /\ r.m.obj[r.ret].player2 = p

\* C23: every stored game that is PLAYER1_TURN has turn = player1 with
\* player1 set, and every stored game that is PLAYER2_TURN has turn =
\* player2 with player2 set: while a game is played its turn is never null
\* and never names a player outside its seats.
C23_TurnMatchesStatus ==
    \A S \in games :
        /\ obj[S].gameState = PLAYER1_TURN
           => obj[S].player1 # Null /\ obj[S].turn = obj[S].player1
        /\ obj[S].gameState = PLAYER2_TURN
           => obj[S].player2 # Null /\ obj[S].turn = obj[S].player2

\* The step is the acceptance of a move on game g: a handler gets to the
\* game.move broadcast for g.
MoveAcceptedOn(g) ==
    \E t \in Threads :
        /\ thr[t].pc = "idle"
        /\ thr'[t].pc = "moved"
        /\ thr'[t].gameId = g

\* Across a step, a game's history grows by the submitted token of length 4
\* when the step accepts a move on the game, and is unchanged otherwise.
HistoryAppendOnly ==
    \A g \in DOMAIN obj :
        obj'[g] # Collected
        => IF MoveAcceptedOn(g)
           THEN \E t \in Threads, player \in Players, move \in Moves \cup BoardMoves :
                   /\ Len(move) = 4
                   /\ obj'[g].moveHistory = Append(obj[g].moveHistory, move)
                   /\ MoveRequest(t, g, player, move)
           ELSE obj'[g].moveHistory = obj[g].moveHistory

StatusEdges ==
    {<<WAITING_FOR_PLAYER, PLAYER1_TURN>>,
     <<PLAYER1_TURN, PLAYER2_TURN>>,
     <<PLAYER2_TURN, PLAYER1_TURN>>}
    \cup ({PLAYER1_TURN, PLAYER2_TURN} \X {PLAYER1_WON, PLAYER2_WON, TIE})

\* Across a step, the status of a game that is stored before the step stays
\* as it is or follows an edge.
StatusFollowsEdges ==
    \A S \in games :
        (obj'[S] # Collected /\ obj'[S].gameState # obj[S].gameState)
        => <<obj[S].gameState, obj'[S].gameState>> \in StatusEdges

\* C25: every status change of a stored game follows the edges WAITING ->
\* PLAYER1_TURN, PLAYER1_TURN <-> PLAYER2_TURN, and a turn status -> a won
\* status or TIE: a WAITING game never becomes terminal and a terminal game
\* never changes status again, under every interleaving of handlers.
C25_StatusFollowsEdges == [][StatusFollowsEdges]_vars

\* For a game or a message built from one: winner is null unless the status
\* is won, and the winner of a won game is the player in the winning seat.
WinnerOk(r) ==
    /\ r.winner # Null => r.gameState \in {PLAYER1_WON, PLAYER2_WON}
    /\ r.gameState = PLAYER1_WON => r.winner # Null /\ r.winner = r.player1
    /\ r.gameState = PLAYER2_WON => r.winner # Null /\ r.winner = r.player2

\* The messages with a game's fields that the handlers are about to send.
PendingSnapshots ==
    {JoinedMessage(t).message : t \in {u \in Threads : thr[u].pc = "joined"}}
    \cup {LeftMessage(t).message : t \in {u \in Threads : thr[u].pc = "left"}}
    \cup {MovedMessage(t).message : t \in {u \in Threads : thr[u].pc = "moved"}}
    \cup {GameOverMessage(t).message : t \in {u \in Threads : thr[u].pc = "disconnected"}}

WinnerMatchesStatus ==
    /\ \A g \in games : WinnerOk(obj[g])
    /\ \A msg \in PendingSnapshots : WinnerOk(msg)

\* The step that ends a game does not make the player who left or whose
\* connection dropped the winner.
LeaverNeverWins ==
    \A g \in games :
        (obj[g].winner = Null /\ obj'[g] # Collected /\ obj'[g].winner # Null)
        => /\ \A t \in Threads, p \in Players :
                 LeaveRequest(t, p) => obj'[g].winner # p
           /\ \A c \in BoundConns :
                 (attrs[c].gameId = g /\ attrs'[c] = NoAttrs)
                 => obj'[g].winner # attrs[c].player

\* C26: in every reachable state, and so in every message built from a
\* game, winner is null unless the status is PLAYER1_WON or PLAYER2_WON; a
\* game that is PLAYER1_WON has winner = player1, one that is PLAYER2_WON has
\* winner = player2, and the winner is never the player who left or
\* disconnected.
C26_WinnerMatchesStatus == []WinnerMatchesStatus /\ [][LeaverNeverWins]_vars

\* C27: outside a synchronized block every pool entry name -> id refers to
\* a game that is stored under that id, WAITING, with player1 = name and no
\* player2: the entry goes in the same block in which its player is paired,
\* leaves or disconnects.
C27_PoolEntriesAreLive ==
    \A p \in Players :
        waitingPlayers[p] # NoGame
        => /\ waitingPlayers[p] \in games
           /\ obj[waitingPlayers[p]].gameState = WAITING_FOR_PLAYER
           /\ obj[waitingPlayers[p]].player1 = p
           /\ obj[waitingPlayers[p]].player2 = Null

\* Player p has a seat in no stored game.
SeatedNowhere(p) == \A g \in games : ~IsPlayerInGame(p, obj[g])

\* C28: a chess.leave that names a player who is seated in no stored game is
\* answered with an error message and changes neither the store nor the pool.
C28_LeaveOfStrangerIsError ==
    \A p \in Players :
        SeatedNowhere(p)
        => /\ LeaveError(p) # NoSend
           /\ LeaveError(p).message.type = "error"
           /\ \A r \in LeaveGame(Manager, p) :
                 /\ r.m.games = games
                 /\ r.m.waitingPlayers = waitingPlayers

\* The conditions a move request can fail, by rank, each on its own: 1 the
\* game is missing or over, 2 it is WAITING, 3 the sender has no seat in it,
\* 4 it is not the sender's turn, 5 the token's length is not 4.
FailedRanks(gameId, player, move) ==
    {rank \in 1 .. 5 :
        \/ rank = 1 /\ (gameId \notin games \/ IsGameOver(obj[gameId]))
        \/ rank = 2 /\ gameId \in games /\ obj[gameId].gameState = WAITING_FOR_PLAYER
        \/ rank = 3 /\ gameId \in games /\ ~IsPlayerInGame(player, obj[gameId])
        \/ rank = 4 /\ gameId \in games /\ obj[gameId].turn # player
        \/ rank = 5 /\ Len(move) # 4}

\* The error's text for each rank.
ContentOfRank ==
    << "Game not found or is already over.",
       "Game is waiting for another player to join.",
       "You are not a participant in this game.",
       "It's not your turn.",
       "Invalid move. Please try again." >>

\* The payloads that carry a game id, a sender and a token.
FullMoveInputs == GameIds \X Players \X Moves

\* C29: a move request is rejected with the first condition it fails, in
\* the order: game missing or over, game WAITING, sender not seated, not the
\* sender's turn, token length not 4; a request that fails none is accepted.
C29_FirstFailingCondition ==
    \A in \in FullMoveInputs :
        LET failed == FailedRanks(in[1], in[2], in[3])
            error == MoveError(Manager, in[1], in[2], in[3])
        IN  IF failed = {}
            THEN error = NoSend
            ELSE \E rank \in failed :
                    /\ \A other \in failed : rank <= other
                    /\ error.message.content = ContentOfRank[rank]

\* After a move in a paired game: the player who has just moved sends a
\* token of length 3 and is told it is not their turn, and a player without
\* a seat who sends it is told they are no participant.
C29_Witness ==
    \E g \in games :
        /\ obj[g].gameState = PLAYER2_TURN
        /\ Len(obj[g].moveHistory) = 1
        /\ FailedRanks(g, obj[g].player1, ShortMove) = {4, 5}
        /\ MoveError(Manager, g, obj[g].player1, ShortMove).message.content
              = "It's not your turn."
        /\ FailedRanks(g, "carol", ShortMove) = {3, 4, 5}

\* The files a to h and the ranks 1 to 8, in board order: file a is column
\* 0, and rank 8 is row 0.
Files == <<"a", "b", "c", "d", "e", "f", "g", "h">>

Ranks == <<"8", "7", "6", "5", "4", "3", "2", "1">>

\* The square a file and a rank name: <<row, col>>, or << >> outside a1-h8.
SquareOf(file, rank) ==
    IF (\E col \in 1 .. 8 : Files[col] = file) /\ (\E row \in 1 .. 8 : Ranks[row] = rank)
    THEN << (CHOOSE row \in 1 .. 8 : Ranks[row] = rank) - 1,
            (CHOOSE col \in 1 .. 8 : Files[col] = file) - 1 >>
    ELSE << >>

\* The board after one token, square by square: with both squares inside
\* a1-h8 the to-square gets the content of the from-square, the from-square
\* (when it is another square) becomes empty, every other square stays.
Relocate(board, token) ==
    LET from == SquareOf(token[1], token[2])
        to   == SquareOf(token[3], token[4])
    IN  IF from = << >> \/ to = << >>
        THEN board
        ELSE [ row \in 0 .. 7 |->
                 [ col \in 0 .. 7 |->
                     IF <<row, col>> = to THEN board[from[1]][from[2]]
                     ELSE IF <<row, col>> = from THEN " "
                     ELSE board[row][col] ] ]

RECURSIVE RelocateAll(_, _)
\* The left-to-right replay of a history's tokens.
RelocateAll(board, history) ==
    IF history = << >>
    THEN board
    ELSE RelocateAll(Relocate(board, Head(history)), Tail(history))

\* The standard starting position as a board.
StandardBoard == [row \in 0 .. 7 |-> [col \in 0 .. 7 |-> StandardRows[row + 1][col + 1]]]

\* C30: for every history the derived board is the left-to-right replay of
\* its tokens from the starting position, a token with both squares inside
\* a1-h8 putting the content of its from-square on its to-square, emptying
\* the from-square when the squares differ and leaving every other square;
\* every token of the history, each of length 4, takes part.
C30_BoardIsReplayOfHistory ==
    \A g \in games :
        /\ \A i \in 1 .. Len(obj[g].moveHistory) : Len(obj[g].moveHistory[i]) = 4
        /\ GetBoard(obj[g]) = RelocateAll(StandardBoard, obj[g].moveHistory)

\* White's rook has gone from a1 to h8 onto the black rook, and a token
\* with rank 9 has followed it.
C30_Witness ==
    \E g \in games :
        /\ obj[g].moveHistory = <<A1H8, E9E4>>
        /\ GetBoard(obj[g])[0][7] = "R"
        /\ GetBoard(obj[g])[7][0] = " "
        /\ GetBoard(obj[g])[4][4] = " "

\* The stored games that wait for a second player.
WaitingGames == {g \in games : obj[g].gameState = WAITING_FOR_PLAYER}

\* C31: the store holds at most one WAITING game, so joinGame never has more
\* than one entry it can pair with; pool entries whose game is gone are
\* skipped.
C31_AtMostOneWaitingGame ==
    /\ Cardinality(WaitingGames) <= 1
    /\ \A p \in Players :
          LET candidates ==
                  PairingCandidates([Manager EXCEPT !.waitingPlayers[p] = NoGame], p)
          IN  /\ Cardinality(candidates) <= 1
              /\ \A w \in candidates : waitingPlayers[w] \in WaitingGames

\* Bob waits in a game while the pool still holds the entry of a game that
\* is gone: a join of carol has bob's entry as its one candidate.
C31_Witness ==
    /\ Cardinality(WaitingGames) = 1
    /\ waitingPlayers["alice"] # NoGame
    /\ waitingPlayers["alice"] \notin games
    /\ PairingCandidates(Manager, "carol") = {"bob"}

\* The games that chessManager.joinGame(player) can return now.
JoinReturns(player) ==
    {r.m.obj[r.ret] : r \in {e \in JoinGame(Manager, player) : e.ret # NoGame}}

\* No join returns a game that is over, and no game.joined message is built
\* from one.
JoinAvoidsFinishedGames ==
    /\ \A p \in Players : \A game \in JoinReturns(p) : ~IsGameOver(game)
    /\ \A t \in Threads :
          thr[t].pc = "joined" => ~IsGameOver(JoinedMessage(t).message)

\* C32: join never returns a game whose status is terminal and no game.joined
\* message is published for one; the player who remains after the opponent's
\* disconnect and joins during the removal delay is not given the finished
\* game.
C32_JoinAvoidsFinishedGames == JoinAvoidsFinishedGames

\* The delayed removal of a game that a disconnect has ended is pending, and
\* a join of its remaining player returns that finished game.
FinishedGameReturned ==
    \E g \in games, p \in Players :
        /\ g \in timers
        /\ IsGameOver(obj[g])
        /\ obj[g].winner = p
        /\ JoinReturns(p) = {obj[g]}

\* The handlers that have applied a move to game g and have not yet handed
\* its message to the broker.
Unsent(g) ==
    {t \in Threads : thr[t].gameId = g /\ thr[t].pc \in {"moved", "built"}}

\* Once every handler that changed game g has sent its message, the last
\* message on the game's topic shows the game as it is.
LastSentIsLatest ==
    \A g \in games :
        (Unsent(g) = {} /\ lastSent[g] # << >>)
        => lastSent[g][1] = [GameToMessage(g, obj[g]) EXCEPT !.type = "game.move"]

\* C33: on each game topic the messages are published in the order in which
\* their transitions were applied, so the last message on the topic carries
\* the game's latest turn, status and board.
C33_PublishedInAppliedOrder == LastSentIsLatest

\* Two moves were applied by two handlers and both messages are out; the one
\* sent last was built after the first move only.
StaleMessageSentLast ==
    \E g \in games :
        /\ \A t \in Threads : thr[t].pc = "idle"
        /\ Len(obj[g].moveHistory) = 2
        /\ lastSent[g] # << >>
        /\ lastSent[g][1].turn = obj[g].player2
        /\ lastSent[g][1].board = GetBoard([obj[g] EXCEPT !.moveHistory = SubSeq(@, 1, 1)])
        /\ lastSent[g][1].board # GetBoard(obj[g])

\* Handlers t and u both hold a move of the player on turn for the same game,
\* both have passed the checks and neither has called game.makeMove yet.
RacingMoves(t, u) ==
    /\ t # u
    /\ thr[t].pc = "apply"
    /\ thr[u].pc = "apply"
    /\ thr[t].gameId = thr[u].gameId
    /\ thr[t].player = thr[u].player
    /\ obj[thr[t].gameId].turn = thr[t].player
    /\ Len(thr[t].move) = 4
    /\ Len(thr[u].move) = 4

\* Whichever of two racing handlers calls game.makeMove first is accepted and
\* the other is refused: one token more, the turn flipped once.
OneOfTwoAccepted ==
    \A t, u \in Threads :
        RacingMoves(t, u)
        => LET game   == obj[thr[t].gameId]
               first  == MakeMove(game, thr[t].player, thr[t].move)
               second == MakeMove(first.game, thr[u].player, thr[u].move)
           IN  /\ first.ok
               /\ ~second.ok
               /\ second.game = first.game
               /\ first.game.moveHistory = Append(game.moveHistory, thr[t].move)
               /\ first.game.turn # game.turn
               /\ first.game.turn \in {game.player1, game.player2}

\* The handler that comes second changes nothing, sends no game.move message
\* and returns with the error.
SecondIsRefused ==
    \A t, u \in Threads :
        ( /\ t # u
          /\ thr[t].pc = "apply"
          /\ thr[u].pc \in {"moved", "moveOver"}
          /\ thr[u].gameId = thr[t].gameId
          /\ obj[thr[t].gameId].turn # thr[t].player
          /\ LockedMoveApply(t) )
        => /\ obj'[thr[t].gameId] = obj[thr[t].gameId]
           /\ thr'[t] = IdleLocked
           /\ thr'[u] = thr[u]

\* C34: of two move requests of the player on turn that are processed at the
\* same time on one game exactly one is accepted: moveHistory grows by one
\* token, the turn flips once, one game.move message is published and the
\* other request gets an error.
C34_OneOfTwoMovesAccepted == []OneOfTwoAccepted /\ [][SecondIsRefused]_vars

\* Two handlers validated a move of the same player; one has applied its move
\* and is about to publish it, the other is about to call game.makeMove.
C34_Witness ==
    \E t, u \in Threads :
        /\ thr[t].pc = "apply"
        /\ thr[u].pc = "moved"
        /\ thr[u].gameId = thr[t].gameId
        /\ Len(thr[t].move) = 4
        /\ IsPlayerInGame(thr[t].player, obj[thr[t].gameId])
        /\ obj[thr[t].gameId].turn # thr[t].player
        /\ obj[thr[t].gameId].moveHistory # << >>

\* No game has the status TIE, no move that game.makeMove accepts leaves the
\* game over, and no move handler finds its game over when it tests
\* isGameOver after its game.move message.
MoveNeverEndsGame ==
    /\ \A g \in DOMAIN obj : obj[g] # Collected => obj[g].gameState # TIE
    /\ \A g \in games, player \in Players, move \in Moves :
          LET made == MakeMove(obj[g], player, move)
          IN  made.ok => ~IsGameOver(made.game)
    /\ \A t \in Threads :
          thr[t].pc = "moveOver" => ~IsGameOver(obj[thr[t].gameId])

\* C35: no accepted move makes a game terminal and TIE is never reached: a
\* game ends only by a leave or a disconnect, so the move handler never takes
\* its game-over branch (game.gameOver and the delayed removal).
C35_MoveHandlerNeverEndsGame == MoveNeverEndsGame

\* A move handler has sent game.move and finds the game ended by the
\* opponent's leave: it is about to send game.gameOver and start the removal
\* of a game that is no longer stored.
MoveHandlerFindsGameOver ==
    \E t \in Threads :
        /\ thr[t].pc = "moveOver"
        /\ IsGameOver(obj[thr[t].gameId])
        /\ thr[t].gameId \notin games

\* The handlers that are about to publish game.left or game.gameOver on the
\* topic of game g.
TerminalSenders(g) ==
    {t \in Threads :
        /\ thr[t].gameId = g
        /\ \/ thr[t].pc \in {"leftSystem", "left", "disconnected"}
           \/ thr[t].pc = "moveOver" /\ IsGameOver(obj[g])}

\* The game.gameOver messages of game g that are out: the one whose delayed
\* removal is still pending.
TerminalSent(g) == IF g \in timers THEN 1 ELSE 0

\* C36: for each game at most one terminal message (game.left or
\* game.gameOver) is ever published on its topic, whatever leave and
\* disconnect events of its players' connections follow the first: counting
\* the one that is out and those that handlers are about to send, there is
\* never more than one.
C36_AtMostOneTerminalMessage ==
    \A g \in GameIds : Cardinality(TerminalSenders(g)) + TerminalSent(g) <= 1

\* A step that takes game S out of the store changes no other stored game
\* and removes no pool entry that refers to another stored game.
RemovalTouchesOnlyS ==
    \A S \in games :
        S \notin games'
        => /\ games' = games \ {S}
           /\ \A h \in games \ {S} : obj'[h] = obj[h]
           /\ \A p \in Players :
                 waitingPlayers[p] \in games \ {S}
                 => waitingPlayers'[p] = waitingPlayers[p]

\* The same for the removal a sleeping removal thread will make, in every
\* state in which it can wake up.
PendingRemovalTouchesOnlyS ==
    \A S \in timers \cap games :
        LET m == RemoveGame(Manager, S)
        IN  /\ m.games = games \ {S}
            /\ \A h \in games \ {S} : m.obj[h] = obj[h]
            /\ \A p \in Players :
                  waitingPlayers[p] \in games \ {S}
                  => m.waitingPlayers[p] = waitingPlayers[p]

\* C37: removing game S (at once on a leave, or by the delayed removal after
\* a disconnect) changes nothing but S: every other stored game is unchanged
\* and no pool entry that refers to a different, still stored game is
\* removed, also when S's former players joined again during the delay.
C37_RemovalTouchesOnlyS == []PendingRemovalTouchesOnlyS /\ [][RemovalTouchesOnlyS]_vars

\* The delayed removal of game S is pending, and the player whose connection
\* dropped has joined again: the pool holds the entry of the game created
\* for that player.
C37_Witness ==
    \E S \in timers \cap games, h \in games, p \in Players :
        /\ h # S
        /\ waitingPlayers[p] = h
        /\ obj[h].player1 = p
        /\ ~IsPlayerInGame(p, obj[S])
        /\ RemoveGame(Manager, S).waitingPlayers[p] = h

\* Connection c has no binding, or the game it is bound to is not stored.
Unbound(c) == attrs[c].gameId \notin games

\* The drop of an unbound connection changes neither the store nor the pool,
\* starts no removal and leaves no handler with a message to publish.
UnboundDisconnectChangesNothing ==
    \A c \in Conns :
        Unbound(c)
        => \A t \in Threads :
              (SessionDisconnect(t, c) \/ LockedSessionDisconnect(t, c))
              => /\ games' = games
                 /\ \A g \in games : obj'[g] = obj[g]
                 /\ waitingPlayers' = waitingPlayers
                 /\ nextId' = nextId
                 /\ timers' = timers
                 /\ lastSent' = lastSent
                 /\ thr' = thr
                 /\ thr[t].pc = "idle"

\* The handler of such a drop sends no system message either.
UnboundDisconnectIsSilent ==
    \A c \in Conns : Unbound(c) => LockedDisconnectSystem(c) = NoSend

\* C38: the disconnect of a connection that has no binding (its join never
\* succeeded), or whose game is no longer stored, changes nothing in the
\* store or the pool and publishes nothing.
C38_UnboundDisconnectIsNoOp ==
    []UnboundDisconnectIsSilent /\ [][UnboundDisconnectChangesNothing]_vars

\* A connection is still bound to a game that a leave removed, another game
\* is stored with its pool entry, and a handler is free to serve the drop.
C38_Witness ==
    \E c \in Conns :
        /\ attrs[c].gameId # NoGame
        /\ attrs[c].gameId \notin games
        /\ games # {}
        /\ \E p \in Players : waitingPlayers[p] \in games
        /\ Serves("t1")

\* Player p has a seat in a stored game whose two seats are taken.
Paired(p) ==
    \E g \in games :
        /\ IsPlayerInGame(p, obj[g])
        /\ obj[g].player1 # Null
        /\ obj[g].player2 # Null

\* The client of p has received a game.joined message that names p.
Learned(p) == clients[p].playerColor # Null

\* C39: every client whose join succeeds eventually learns its game: with
\* clients that subscribe to a game topic only after the game.subscribe
\* notice on the lobby, and messages delivered at most once, the first and
\* the second player of a game both eventually receive a game.joined message
\* that names them as player1 or player2.
C39_JoinedClientsLearnTheirGame == \A p \in Players : Paired(p) ~> Learned(p)

\* The second player of a game is seated, its client listens on the lobby,
\* every handler has finished, and the client is subscribed to no game topic:
\* its game.joined message is gone and no game.subscribe notice named the game.
SecondPlayerNeverSubscribed ==
    \E g \in games :
        /\ obj[g].player1 # Null
        /\ obj[g].player2 # Null
        /\ clients[obj[g].player2].lobby
        /\ g \notin clients[obj[g].player2].topics
        /\ ~Learned(obj[g].player2)
        /\ Learned(obj[g].player1)
        /\ \A t \in Threads : thr[t].pc = "idle"

====
